---- MODULE Spec2Model ----
(***************************************************************************)
(* Model of the auction-listing normalisation pipeline                     *)
(* (src/scrapers/supabase_client.py), of its helpers called on their own,  *)
(* of the batched upsert of the storage client, and of the upload paths of *)
(* the Caixa and Sodre scrapers that feed the storage client.              *)
(*                                                                         *)
(* Python values are encoded as TLA+ strings: a str is the string itself,  *)
(* None is the reserved string None, and a key that is missing from a dict *)
(* is the reserved string Absent.  Numbers that the pipeline only carries  *)
(* are the strings of their decimal form.                                  *)
(***************************************************************************)
EXTENDS Integers, Sequences, FiniteSets, TLC

None == "<None>"
Absent == "<absent>"

\* Exceptions a call can end with, as reserved strings.
TypeError == "<TypeError>"
AttributeError == "<AttributeError>"
ValueError == "<ValueError>"

\* Python truthiness of an optional str: None and "" are falsy.
Truthy(x) == x # None /\ x # Absent /\ x # ""

\* dict.get(k) and dict.get(k, default) on a record whose missing keys hold Absent.
Get(item, k) == IF item[k] = Absent THEN None ELSE item[k]
GetD(item, k, default) == IF item[k] = Absent THEN default ELSE item[k]

(***************************************************************************)
(* Characters and str methods                                              *)
(***************************************************************************)
Ch(s, i) == SubSeq(s, i, i)

\* One C0 control character that is not whitespace (U+0001) and DEL (U+007F).
SOH == ""
DEL == ""

\* The characters \s matches and str.strip() strips, within the model's alphabet.
SpaceChars == {" ", "\t", "\n", "\r", "\f"}
IsSpace(c) == c \in SpaceChars

\* [\x00-\x1f\x7f-\x9f] within the model's alphabet.
ControlChars == {"\t", "\n", "\r", "\f", SOH, DEL}

UpperAZ == "ABCDEFGHIJKLMNOPQRSTUVWXYZ"
LowerAZ == "abcdefghijklmnopqrstuvwxyz"
UpperAccent == "ÁÀÂÃÉÊÍÓÔÕÚÇ"
LowerAccent == "áàâãéêíóôõúç"
DigitChars == {"0", "1", "2", "3", "4", "5", "6", "7", "8", "9"}

CharsOf(s) == {Ch(s, i) : i \in 1..Len(s)}
UpperAZChars == CharsOf(UpperAZ)
LowerAZChars == CharsOf(LowerAZ)
IsUpperAZ(c) == c \in UpperAZChars
IsDigit(c) == c \in DigitChars

UpperAll == UpperAZ \o UpperAccent
LowerAll == LowerAZ \o LowerAccent
LowerOf == [c \in CharsOf(UpperAll) |->
              Ch(LowerAll, CHOOSE i \in 1..Len(UpperAll) : Ch(UpperAll, i) = c)]
UpperOf == [c \in CharsOf(LowerAll) |->
              Ch(UpperAll, CHOOSE i \in 1..Len(LowerAll) : Ch(LowerAll, i) = c)]
LowerCh(c) == IF c \in DOMAIN LowerOf THEN LowerOf[c] ELSE c
UpperCh(c) == IF c \in DOMAIN UpperOf THEN UpperOf[c] ELSE c

\* ''.join(q[a..b])
RECURSIVE JoinRange(_, _, _)
JoinRange(q, a, b) ==
    IF a > b THEN ""
    ELSE IF a = b THEN q[a]
    ELSE LET m == (a + b) \div 2
         IN  JoinRange(q, a, m) \o JoinRange(q, m + 1, b)

Join(q) == JoinRange(q, 1, Len(q))

\* str.lower(), str.upper(), str.capitalize()
Lower(s) == Join([i \in 1..Len(s) |-> LowerCh(Ch(s, i))])
Upper(s) == Join([i \in 1..Len(s) |-> UpperCh(Ch(s, i))])
Capitalize(s) ==
    Join([i \in 1..Len(s) |-> IF i = 1 THEN UpperCh(Ch(s, i)) ELSE LowerCh(Ch(s, i))])

\* s[a-1:] and s[:b] with 1-based inclusive bounds
From(s, a) == SubSeq(s, a, Len(s))
Upto(s, b) == SubSeq(s, 1, b)

\* True when every character of s[a..b] is whitespace (an empty range included).
AllSpace(s, a, b) == \A i \in a..b : IsSpace(Ch(s, i))

\* str.strip(): without leading and trailing whitespace.
Strip(s) ==
    LET keep == {i \in 1..Len(s) : ~IsSpace(Ch(s, i))}
    IN  IF keep = {} THEN ""
        ELSE SubSeq(s, CHOOSE i \in keep : \A j \in keep : i <= j,
                       CHOOSE i \in keep : \A j \in keep : i >= j)

\* str.strip(chars) for a single character c.
StripChar(s, c) ==
    LET keep == {i \in 1..Len(s) : Ch(s, i) # c}
    IN  IF keep = {} THEN ""
        ELSE SubSeq(s, CHOOSE i \in keep : \A j \in keep : i <= j,
                       CHOOSE i \in keep : \A j \in keep : i >= j)

\* sub in s
Contains(s, sub) ==
    \E i \in 1..(Len(s) - Len(sub) + 1) : SubSeq(s, i, i + Len(sub) - 1) = sub

Min(S) == CHOOSE x \in S : \A y \in S : x <= y
Max(S) == CHOOSE x \in S : \A y \in S : x >= y

\* s.rsplit(' ', 1)[0]: the part before the last space, or all of s.
RSplitSpaceHead(s) ==
    LET sp == {i \in 1..Len(s) : Ch(s, i) = " "}
    IN  IF sp = {} THEN s ELSE Upto(s, Max(sp) - 1)

\* s.split(): the maximal runs of non-whitespace characters, in order.
SplitWords(s) ==
    LET starts == {i \in 1..Len(s) : ~IsSpace(Ch(s, i)) /\ (i = 1 \/ IsSpace(Ch(s, i - 1)))}
        EndOf(i) == Min({j \in i..Len(s) : j = Len(s) \/ IsSpace(Ch(s, j + 1))})
        RECURSIVE Build(_)
        Build(S) == IF S = {} THEN <<>>
                    ELSE LET i == Min(S)
                         IN  <<SubSeq(s, i, EndOf(i))>> \o Build(S \ {i})
    IN  Build(starts)

(***************************************************************************)
(* HELPERS (supabase_client.py)                                            *)
(***************************************************************************)
\* The 27 state codes.
UFS == {"AC","AL","AP","AM","BA","CE","DF","ES","GO","MA","MT","MS","MG",
        "PA","PB","PR","PE","PI","RJ","RN","RS","RO","RR","SC","SP","SE","TO"}

\* _REGEX_CACHE['whitespace'].sub(' ', s): every run of whitespace becomes one space.
SubWhitespace(s) ==
    Join([i \in 1..Len(s) |->
            IF IsSpace(Ch(s, i))
            THEN (IF i > 1 /\ IsSpace(Ch(s, i - 1)) THEN "" ELSE " ")
            ELSE Ch(s, i)])

\* _REGEX_CACHE['control_chars'].sub('', s)
SubControl(s) ==
    Join([i \in 1..Len(s) |-> IF Ch(s, i) \in ControlChars THEN "" ELSE Ch(s, i)])

\* The ellipsis marker appended by a truncation.
Ellipsis == "..."

\* clean_text without the final conversion of an empty result to None.
clean_text_keeps_empty(text, max_len) ==
    IF ~Truthy(text) THEN None
    ELSE LET Truncate(t) == IF max_len # 0 /\ Len(t) > max_len
                            THEN RSplitSpaceHead(Upto(t, max_len)) \o Ellipsis
                            ELSE t
         IN  Truncate(SubControl(Strip(SubWhitespace(text))))

\* clean_text(text, max_len); max_len = 0 stands for max_len=None (both falsy).
clean_text(text, max_len) ==
    IF ~Truthy(text) THEN None
    ELSE LET Truncate(t) == IF max_len # 0 /\ Len(t) > max_len
                            THEN RSplitSpaceHead(Upto(t, max_len)) \o Ellipsis
                            ELSE t
             OrNone(t) == IF t # "" THEN t ELSE None
         IN  OrNone(Truncate(SubControl(Strip(SubWhitespace(text)))))

\* The group ([A-Z]{2}) of a tail \s*([A-Z]{2})\s*$ that starts right after
\* position i of s, or None when the tail does not have that form.
TailCode(s, i) ==
    LET Code(rest) == IF Len(rest) = 2 /\ IsUpperAZ(Ch(rest, 1)) /\ IsUpperAZ(Ch(rest, 2))
                      THEN rest ELSE None
    IN  Code(Strip(From(s, i + 1)))

\* Positions of the characters of s that are in the set seps.
Positions(s, seps) == {i \in 1..Len(s) : Ch(s, i) \in seps}

\* _REGEX_CACHE['state_end'].search(s): the position of the leftmost [-/] from
\* which [-/]\s*([A-Z]{2})\s*$ matches, or 0 when there is no match.
StateEndPos(s) ==
    LET First(m) == IF m = {} THEN 0 ELSE Min(m)
    IN  First({i \in Positions(s, {"-", "/"}) : TailCode(s, i) # None})

extract_state(text) ==
    IF ~Truthy(text) THEN None
    ELSE LET Valid(uf) == IF uf \in UFS THEN uf ELSE None
             FirstUF(words) ==
                 IF \E i \in 1..Len(words) : words[i] \in UFS
                 THEN words[Min({i \in 1..Len(words) : words[i] \in UFS})]
                 ELSE None
             Search(text_upper, pos) ==
                 IF pos # 0 THEN Valid(TailCode(text_upper, pos))
                 ELSE FirstUF(SplitWords(text_upper))
             OnUpper(text_upper) == Search(text_upper, StateEndPos(text_upper))
         IN  OnUpper(Upper(text))

\* The first pattern read as a split at the first separator: the pair of the
\* first and the last separator of t.
AddrPattern1First(t) ==
    LET Ends(seps) ==
            IF Cardinality(seps) >= 2 /\ Min(seps) >= 2 /\ TailCode(t, Max(seps)) # None
            THEN <<Min(seps), Max(seps)>>
            ELSE <<0, 0>>
    IN  Ends(Positions(t, {"-", ","}))

\* re.match(r'(.+?)[-,]\s*([^-,]+)\s*[-,]\s*([A-Z]{2})\s*$', t): the pair <<a, m>>
\* of the positions of the two separators the match uses, or <<0, 0>>.  The tail
\* after the second separator holds only whitespace and two capitals, so m is a
\* separator with TailCode; group 2 holds no separator, so no separator lies
\* between a and m; group 1 (lazy, at least one character, no newline) is t[1..a-1].
AddrPattern1(t) ==
    LET Leftmost(cand) ==
            IF cand = {} THEN <<0, 0>>
            ELSE CHOOSE am \in cand : \A o \in cand : am[1] <= o[1]
        Among(seps) ==
            Leftmost({am \in seps \X seps :
                        /\ am[1] >= 2
                        /\ am[2] >= am[1] + 2
                        /\ \A x \in seps : ~(am[1] < x /\ x < am[2])
                        /\ TailCode(t, am[2]) # None
                        /\ \A i \in 1..(am[1] - 1) : Ch(t, i) # "\n"})
    IN  Among(Positions(t, {"-", ","}))

\* Group 2 of the first pattern for the separators a < m: \s* (greedy) takes the
\* whitespace after a but leaves [^-,]+ at least one character; [^-,]+ (greedy)
\* runs up to the separator m.
AddrPattern1City(t, a, m) ==
    SubSeq(t, Max({j \in (a + 1)..(m - 1) : AllSpace(t, a + 1, j - 1)}), m - 1)

\* re.search(r'([^-/]+)\s*[-/]\s*([A-Z]{2})\s*$', t): the pair <<p, m>> of the
\* start of the leftmost match and the position of its separator, or <<0, 0>>.
\* Group 1 (greedy) is t[p..m-1]: it holds no separator and is not empty.
AddrPattern2(t) ==
    LET Leftmost(cand) ==
            IF cand = {} THEN <<0, 0>>
            ELSE CHOOSE pm \in cand : \A o \in cand : pm[1] <= o[1]
        Among(seps) ==
            Leftmost({pm \in (1..Len(t)) \X seps :
                        /\ pm[1] < pm[2]
                        /\ \A x \in seps : ~(pm[1] <= x /\ x < pm[2])
                        /\ TailCode(t, pm[2]) # None})
    IN  Among(Positions(t, {"-", "/"}))

\* parse_address(text): exc is None, or the exception re.match raises when
\* clean_text turned a non-empty text into None.
parse_address(text) ==
    IF ~Truthy(text)
    THEN [exc |-> None, address |-> None, city |-> None, state |-> None]
    ELSE LET Third(t) == [exc |-> None, address |-> t, city |-> None,
                          state |-> extract_state(t)]
             Second(t, m2) ==
                 IF m2 # <<0, 0>>
                 THEN [exc |-> None,
                       address |-> t,
                       city |-> clean_text(SubSeq(t, m2[1], m2[2] - 1), 0),
                       state |-> TailCode(t, m2[2])]
                 ELSE Third(t)
             First(t, m1) ==
                 IF m1 # <<0, 0>>
                 THEN [exc |-> None,
                       address |-> clean_text(Upto(t, m1[1] - 1), 0),
                       city |-> clean_text(AddrPattern1City(t, m1[1], m1[2]), 0),
                       state |-> TailCode(t, m1[2])]
                 ELSE Second(t, AddrPattern2(t))
             OnClean(t) ==
                 IF t = None
                 THEN [exc |-> TypeError, address |-> None, city |-> None, state |-> None]
                 ELSE First(t, AddrPattern1(t))
         IN  OnClean(clean_text(text, 0))

\* s without the characters outside keep.
KeepChars(s, keep) ==
    Join([i \in 1..Len(s) |-> IF Ch(s, i) \in keep THEN Ch(s, i) ELSE ""])

\* s.replace(a, b) for single characters.
ReplaceCh(s, a, b) ==
    Join([i \in 1..Len(s) |-> IF Ch(s, i) = a THEN b ELSE Ch(s, i)])

\* s without leading occurrences of the character c.
LStripChar(s, c) ==
    LET keep == {i \in 1..Len(s) : Ch(s, i) # c}
    IN  IF keep = {} THEN "" ELSE From(s, Min(keep))

\* s without trailing occurrences of the character c.
RStripChar(s, c) ==
    LET keep == {i \in 1..Len(s) : Ch(s, i) # c}
    IN  IF keep = {} THEN "" ELSE Upto(s, Max(keep))

\* float(clean) for clean made of digits and '.': the float as the string of its
\* decimal form (as repr prints it between 1e-4 and 1e16), or None when float()
\* raises ValueError (no digit, or more than one '.').
FloatOf(clean) ==
    LET OrZero(digits) == IF digits = "" THEN "0" ELSE digits
        SplitAt(d) == OrZero(LStripChar(Upto(clean, d - 1), "0")) \o "."
                      \o OrZero(RStripChar(From(clean, d + 1), "0"))
        OnDots(dots) ==
            IF Cardinality(dots) > 1 \/ Len(clean) = Cardinality(dots) THEN None
            ELSE SplitAt(IF dots = {} THEN Len(clean) + 1 ELSE Min(dots))
    IN  OnDots(Positions(clean, {"."}))

\* parse_value(value) for value None or a str.
parse_value(value) ==
    IF value = None \/ value = Absent THEN None
    ELSE LET OnClean(clean) == IF clean # "" THEN FloatOf(clean) ELSE None
         IN  OnClean(ReplaceCh(KeepChars(value, DigitChars \cup {","}), ",", "."))

\* int(s) for a string of decimal digits.
RECURSIVE StrToInt(_)
StrToInt(s) ==
    IF s = "" THEN 0
    ELSE StrToInt(Upto(s, Len(s) - 1)) * 10
         + (CHOOSE d \in 0..9 : ToString(d) = Ch(s, Len(s)))

AllDigits(s, a, b) == \A i \in a..b : IsDigit(Ch(s, i))

\* The calendar of datetime: leap years, month lengths, date.toordinal().
IsLeap(y) == (y % 4 = 0 /\ y % 100 # 0) \/ y % 400 = 0
DaysInMonth(y, m) ==
    IF m = 2 THEN (IF IsLeap(y) THEN 29 ELSE 28)
    ELSE IF m \in {4, 6, 9, 11} THEN 30 ELSE 31
RECURSIVE DaysBeforeMonth(_, _)
DaysBeforeMonth(y, m) ==
    IF m = 1 THEN 0 ELSE DaysBeforeMonth(y, m - 1) + DaysInMonth(y, m - 1)
Ordinal(y, m, d) ==
    (y - 1) * 365 + ((y - 1) \div 4) - ((y - 1) \div 100) + ((y - 1) \div 400)
    + DaysBeforeMonth(y, m) + d

\* Whether datetime.strptime(parsed, '%Y-%m-%d') accepts the string dddd-dd-dd.
ValidYMD(parsed) ==
    LET Valid(y, m, d) == y >= 1 /\ m \in 1..12 /\ d >= 1 /\ d <= DaysInMonth(y, m)
    IN  Valid(StrToInt(SubSeq(parsed, 1, 4)), StrToInt(SubSeq(parsed, 6, 7)),
              StrToInt(SubSeq(parsed, 9, 10)))
OrdinalOfYMD(parsed) ==
    Ordinal(StrToInt(SubSeq(parsed, 1, 4)), StrToInt(SubSeq(parsed, 6, 7)),
            StrToInt(SubSeq(parsed, 9, 10)))

\* re.search(r'(\d{4}-\d{2}-\d{2})', s): start of the leftmost match, or 0.
IsoDatePos(s) ==
    LET First(m) == IF m = {} THEN 0 ELSE Min(m)
    IN  First({i \in 1..(Len(s) - 9) :
                /\ AllDigits(s, i, i + 3) /\ Ch(s, i + 4) = "-"
                /\ AllDigits(s, i + 5, i + 6) /\ Ch(s, i + 7) = "-"
                /\ AllDigits(s, i + 8, i + 9)})

\* re.search(r'(\d{2})/(\d{2})/(\d{4})', s): start of the leftmost match, or 0.
BrDatePos(s) ==
    LET First(m) == IF m = {} THEN 0 ELSE Min(m)
    IN  First({i \in 1..(Len(s) - 9) :
                /\ AllDigits(s, i, i + 1) /\ Ch(s, i + 2) = "/"
                /\ AllDigits(s, i + 3, i + 4) /\ Ch(s, i + 5) = "/"
                /\ AllDigits(s, i + 6, i + 9)})

\* The plausibility window of parse_date, in days.
WindowDays == 730

\* parse_date with the window counted in whole days: the date 730 days
\* before today is already too old.
parse_date_whole_days(date_str, clock) ==
    IF ~Truthy(date_str) THEN None
    ELSE LET Older(date_obj) == date_obj <= clock.day - WindowDays
             Checked(parsed) ==
                 IF parsed = None THEN None
                 ELSE IF ~ValidYMD(parsed) THEN None
                 ELSE IF Older(OrdinalOfYMD(parsed)) THEN None
                 ELSE parsed
             Second(br) ==
                 IF br # 0
                 THEN SubSeq(date_str, br + 6, br + 9) \o "-"
                      \o SubSeq(date_str, br + 3, br + 4) \o "-"
                      \o SubSeq(date_str, br, br + 1)
                 ELSE None
             First(iso) ==
                 IF iso # 0 THEN SubSeq(date_str, iso, iso + 9)
                 ELSE Second(BrDatePos(date_str))
         IN  Checked(First(IsoDatePos(date_str)))

\* parse_date(date_str) when datetime.now() is clock: clock.day is the ordinal
\* of today and clock.ms the time elapsed since midnight.
parse_date(date_str, clock) ==
    IF ~Truthy(date_str) THEN None
    ELSE LET \* date_obj (midnight) < datetime.now() - timedelta(days=730)
             Older(date_obj) == \/ date_obj < clock.day - WindowDays
                                \/ (date_obj = clock.day - WindowDays /\ clock.ms > 0)
             Checked(parsed) ==
                 IF parsed = None THEN None
                 ELSE IF ~ValidYMD(parsed) THEN None
                 ELSE IF Older(OrdinalOfYMD(parsed)) THEN None
                 ELSE parsed
             Second(br) ==
                 IF br # 0
                 THEN SubSeq(date_str, br + 6, br + 9) \o "-"
                      \o SubSeq(date_str, br + 3, br + 4) \o "-"
                      \o SubSeq(date_str, br, br + 1)
                 ELSE None
             First(iso) ==
                 IF iso # 0 THEN SubSeq(date_str, iso, iso + 9)
                 ELSE Second(BrDatePos(date_str))
         IN  Checked(First(IsoDatePos(date_str)))

\* toordinal() of 1970-01-01.
EpochOrdinal == 719163

\* str(int(time.time() * 1000)): milliseconds since the epoch, in decimal.
TimeMillis(clock) ==
    LET Pad5(lo) == SubSeq("00000", 1, 5 - Len(lo)) \o lo
    IN  ToString((clock.day - EpochOrdinal) * 864 + (clock.ms \div 100000))
        \o Pad5(ToString(clock.ms % 100000))

\* The characters [a-zA-Z0-9-] keeps.
SlugChars == LowerAZChars \cup UpperAZChars \cup DigitChars \cup {"-"}

\* No collapsing: every '_' stays.
KeepUnderscores(s) == s

\* re.sub(r'_+', '_', s)
CollapseUnderscores(s) ==
    Join([i \in 1..Len(s) |->
            IF Ch(s, i) = "_" /\ i > 1 /\ Ch(s, i - 1) = "_" THEN "" ELSE Ch(s, i)])

\* An identifier that takes the time of the call whatever the raw id.
generate_timed_external_id(source, raw_id, clock) ==
    source \o "_unknown_" \o TimeMillis(clock)

\* generate_clean_external_id(source, raw_id) called when the clock reads clock.
generate_clean_external_id(source, raw_id, clock) ==
    IF ~Truthy(raw_id) THEN source \o "_unknown_" \o TimeMillis(clock)
    ELSE LET Replaced(low) ==
                 Join([i \in 1..Len(low) |->
                         IF Ch(low, i) \in SlugChars THEN Ch(low, i) ELSE "_"])
         IN  source \o "_" \o StripChar(CollapseUnderscores(Replaced(Lower(raw_id))), "_")

extract_category(text, tipo) ==
    IF ~Truthy(text) THEN None
    ELSE LET Match(t) ==
                 IF Contains(t, "apartamento") \/ Contains(t, "apto") THEN "Apartamento"
                 ELSE IF Contains(t, "casa") THEN "Casa"
                 ELSE IF Contains(t, "terreno") \/ Contains(t, "lote") THEN "Terreno"
                 ELSE IF Contains(t, "sala comercial") \/ Contains(t, "loja")
                      THEN "Comercial"
                 ELSE IF Contains(t, "carro") \/ Contains(t, "sedan") \/ Contains(t, "hatch")
                      THEN "Carro"
                 ELSE IF Contains(t, "moto") \/ Contains(t, "motocicleta") THEN "Moto"
                 ELSE IF Contains(t, "caminhão") \/ Contains(t, "truck") THEN "Caminhão"
                 ELSE IF Contains(t, "van") \/ Contains(t, "kombi") THEN "Van"
                 ELSE IF Truthy(tipo) THEN Capitalize(tipo)
                 ELSE None
         IN  Match(Lower(text))

\* The first position from i on that holds no whitespace (Len(s) + 1 at the end).
SkipSpace(s, i) ==
    Min({j \in i..(Len(s) + 1) : j = Len(s) + 1 \/ ~IsSpace(Ch(s, j))})

\* Length of the match of ^(Data do leilão:\s*\d{2}/\d{2}/\d{4}\s*\|\s*), ignoring
\* case, at the start of s; 0 when it does not match.
TitlePrefixLen(s) ==
    LET AfterDate(p2) ==
            IF p2 <= Len(s) /\ Ch(s, p2) = "|" THEN SkipSpace(s, p2 + 1) - 1 ELSE 0
        AfterLiteral(p1) ==
            IF p1 + 9 <= Len(s) /\ BrDatePos(SubSeq(s, p1, p1 + 9)) = 1
            THEN AfterDate(SkipSpace(s, p1 + 10))
            ELSE 0
        Literal(lit) ==
            IF Len(s) >= Len(lit) /\ Lower(Upto(s, Len(lit))) = lit
            THEN AfterLiteral(SkipSpace(s, Len(lit) + 1))
            ELSE 0
    IN  Literal("data do leilão:")

\* The sentence length a title needs.
MinSentence == 20

\* extract_title_from_description(desc, max_len); TypeError when clean_text turned
\* a non-empty desc into None (re.sub on None).
extract_title_from_description(desc, max_len) ==
    IF ~Truthy(desc) THEN None
    ELSE LET \* The sentence of d that starts at a, stripped; cuts are the
             \* positions of the characters [.!?|] of d.
             Sentence(d, cuts, a) ==
                 Strip(SubSeq(d, a, Min({c \in cuts \cup {Len(d) + 1} : c >= a}) - 1))
             Pick(d, cuts, long) ==
                 IF long # {} THEN clean_text(Sentence(d, cuts, Min(long)), max_len)
                 ELSE clean_text(d, max_len)
             Split(d, cuts) ==
                 Pick(d, cuts, {a \in {1} \cup {c + 1 : c \in cuts} :
                                  Len(Sentence(d, cuts, a)) > MinSentence})
             Stripped(d) == Split(d, Positions(d, {".", "!", "?", "|"}))
             OnClean(d0) ==
                 IF d0 = None THEN TypeError
                 ELSE Stripped(From(d0, TitlePrefixLen(d0) + 1))
         IN  OnClean(clean_text(desc, 0))

(***************************************************************************)
(* NORMALIZERS                                                             *)
(*                                                                         *)
(* A raw record is a record over the keys its scraper may set; a key the   *)
(* scraper did not set holds Absent.  A dict keyed by region is the        *)
(* sequence of its (estado, items) pairs in iteration order.  A normalizer *)
(* returns [exc, records]: exc is None and records the list built, or exc  *)
(* is the exception that ended the call.                                   *)
(***************************************************************************)
\* f"{x}" for an optional str.
FStr(x) == IF x = None THEN "None" ELSE x

\* a or b
Or(a, b) == IF Truthy(a) THEN a ELSE b

\* The exception one bradesco record raises, or None.
BradescoItemExc(item) ==
    LET OnTitle(title) ==
            IF title = TypeError THEN TypeError
            ELSE IF ~Truthy(title) /\ GetD(item, "tipo", "Imóvel") = None
            THEN AttributeError
            ELSE None
        OnAddress(addr_parsed) ==
            IF addr_parsed.exc # None THEN addr_parsed.exc
            ELSE OnTitle(extract_title_from_description(Get(item, "descricao"), 120))
    IN  OnAddress(parse_address(Get(item, "descricao")))

\* The record normalize_bradesco appends for one raw record of region estado.
BradescoRecord(estado, item, clock) ==
    LET Record(addr_parsed, title) ==
        [source |-> "bradesco",
         external_id |-> generate_clean_external_id("bradesco", Get(item, "id"), clock),
         category |-> Or(extract_category(Get(item, "descricao"), Get(item, "tipo")),
                         "Imóveis"),
         title |-> IF Truthy(title) THEN title
                   ELSE Capitalize(GetD(item, "tipo", "Imóvel")) \o " em "
                        \o FStr(GetD(item, "cidade", "N/A")),
         value |-> parse_value(Get(item, "valor")),
         value_text |-> Get(item, "valor"),
         city |-> Get(item, "cidade"),
         state |-> IF Len(estado) = 2 THEN estado ELSE addr_parsed.state,
         address |-> Or(addr_parsed.address, Get(item, "endereco")),
         auction_date |-> parse_date(Get(item, "leilao_data"), clock),
         link |-> Get(item, "link"),
         description |-> Get(item, "descricao"),
         description_preview |-> clean_text(Get(item, "descricao"), 200),
         metadata |-> [ano |-> Get(item, "ano"),
                       original_id |-> Get(item, "id"),
                       tipo |-> Get(item, "tipo")]]
    IN  Record(parse_address(Get(item, "descricao")),
               extract_title_from_description(Get(item, "descricao"), 120))

\* The exception one caixa record raises, or None.
CaixaItemExc(item) == parse_address(Get(item, "endereco")).exc

\* The record normalize_caixa appends for one raw record of region estado.
CaixaRecord(estado, item, clock) ==
    LET Record(addr_parsed) ==
        [source |-> "caixa",
         external_id |-> generate_clean_external_id("caixa", Get(item, "id"), clock),
         category |-> Or(extract_category(Or(Get(item, "tipo"), Get(item, "descricao")),
                                          "imovel"),
                         "Imóveis"),
         title |-> Or(clean_text(Get(item, "endereco"), 120),
                      "Imóvel em " \o FStr(GetD(item, "cidade", "N/A")) \o " - " \o estado),
         value |-> parse_value(Get(item, "valor")),
         value_text |-> Get(item, "valor"),
         city |-> Get(item, "cidade"),
         state |-> IF Len(estado) = 2 THEN estado ELSE addr_parsed.state,
         address |-> addr_parsed.address,
         auction_date |-> None,
         link |-> Get(item, "link"),
         description |-> Get(item, "descricao"),
         description_preview |-> clean_text(Get(item, "descricao"), 200),
         metadata |-> [tipo |-> Get(item, "tipo"),
                       venda_direta |-> "True",
                       cidade_codigo |-> Get(item, "cidade_codigo"),
                       original_id |-> Get(item, "id")]]
    IN  Record(parse_address(Get(item, "endereco")))

\* The (estado, item) pairs of a dict keyed by region, in iteration order.
RECURSIVE FlattenRegions(_)
FlattenRegions(data) ==
    IF data = <<>> THEN <<>>
    ELSE [i \in 1..Len(data[1].items) |->
            [estado |-> data[1].estado, item |-> data[1].items[i]]]
         \o FlattenRegions(Tail(data))

\* normalize_bradesco(data): the loop appends a record for each pair, in the
\* order of iteration, and ends with the exception of the first pair that raises.
normalize_bradesco(data, clock) ==
    LET Outcome(pairs, bad) ==
            IF bad # {}
            THEN [exc |-> BradescoItemExc(pairs[Min(bad)].item), records |-> <<>>]
            ELSE [exc |-> None,
                  records |-> [i \in 1..Len(pairs) |->
                                 BradescoRecord(pairs[i].estado, pairs[i].item, clock)]]
        Loop(pairs) ==
            Outcome(pairs, {i \in 1..Len(pairs) : BradescoItemExc(pairs[i].item) # None})
    IN  Loop(FlattenRegions(data))

\* normalize_caixa(data), likewise.
normalize_caixa(data, clock) ==
    LET Outcome(pairs, bad) ==
            IF bad # {}
            THEN [exc |-> CaixaItemExc(pairs[Min(bad)].item), records |-> <<>>]
            ELSE [exc |-> None,
                  records |-> [i \in 1..Len(pairs) |->
                                 CaixaRecord(pairs[i].estado, pairs[i].item, clock)]]
        Loop(pairs) ==
            Outcome(pairs, {i \in 1..Len(pairs) : CaixaItemExc(pairs[i].item) # None})
    IN  Loop(FlattenRegions(data))

\* s.replace('Z', '+00:00')
ReplaceZ(s) ==
    Join([i \in 1..Len(s) |-> IF Ch(s, i) = "Z" THEN "+00:00" ELSE Ch(s, i)])

\* Whether s[a..a+7] is a time HH:MM:SS and s[a..a+4] a time HH:MM.
ValidHM(s, a) ==
    /\ AllDigits(s, a, a + 1) /\ Ch(s, a + 2) = ":" /\ AllDigits(s, a + 3, a + 4)
    /\ StrToInt(SubSeq(s, a, a + 1)) < 24 /\ StrToInt(SubSeq(s, a + 3, a + 4)) < 60
ValidHMS(s, a) ==
    /\ ValidHM(s, a) /\ Ch(s, a + 5) = ":" /\ AllDigits(s, a + 6, a + 7)
    /\ StrToInt(SubSeq(s, a + 6, a + 7)) < 60

\* datetime.fromisoformat(s).strftime('%Y-%m-%d %H:%M:%S%z') for the forms
\* YYYY-MM-DD, YYYY-MM-DD?HH:MM:SS and YYYY-MM-DD?HH:MM:SS(+|-)HH:MM; None when
\* fromisoformat raises ValueError.  Other forms are taken to raise.
ReformatIso(s) ==
        IF ~(Len(s) >= 10 /\ IsoDatePos(Upto(s, 10)) = 1 /\ ValidYMD(Upto(s, 10))) THEN None
        ELSE IF Len(s) = 10 THEN s \o " 00:00:00"
        ELSE IF Len(s) = 19 /\ ValidHMS(s, 12)
        THEN Upto(s, 10) \o " " \o SubSeq(s, 12, 19)
        ELSE IF Len(s) = 25 /\ ValidHMS(s, 12) /\ Ch(s, 20) \in {"+", "-"} /\ ValidHM(s, 21)
        THEN Upto(s, 10) \o " " \o SubSeq(s, 12, 19) \o Ch(s, 20)
             \o SubSeq(s, 21, 22) \o SubSeq(s, 24, 25)
        ELSE None

\* normalize_sodre with the check of the link left out.
SodreKeepsWithoutLink(item) == Truthy(Get(item, "external_id"))

\* Whether normalize_sodre keeps a raw record.
SodreKeeps(item) == Truthy(Get(item, "external_id")) /\ Truthy(Get(item, "link"))

\* The record normalize_sodre appends for a raw record it keeps.
SodreRecord(item) ==
    LET Record(state0, date0, category0) ==
        [source |-> "sodre",
         external_id |-> Get(item, "external_id"),
         category |-> IF ~Truthy(category0) \/ category0 = "Outros"
                      THEN "outros" ELSE category0,
         title |-> clean_text(Get(item, "title"), 200),
         description |-> Get(item, "description"),
         description_preview |-> Get(item, "description_preview"),
         value |-> Get(item, "value"),
         value_text |-> Get(item, "value_text"),
         city |-> Get(item, "city"),
         state |-> IF Truthy(state0) /\ Len(state0) # 2 THEN None ELSE state0,
         address |-> Get(item, "address"),
         auction_date |-> IF Truthy(date0) THEN ReformatIso(ReplaceZ(date0)) ELSE date0,
         days_remaining |-> Get(item, "days_remaining"),
         link |-> Get(item, "link"),
         metadata |-> GetD(item, "metadata", "{}"),
         auction_type |-> Get(item, "auction_type"),
         auction_name |-> Get(item, "auction_name"),
         store_name |-> Get(item, "store_name"),
         lot_number |-> Get(item, "lot_number"),
         total_visits |-> GetD(item, "total_visits", "0"),
         total_bids |-> GetD(item, "total_bids", "0"),
         total_bidders |-> GetD(item, "total_bidders", "0")]
    IN  Record(Get(item, "state"), Get(item, "auction_date"),
               GetD(item, "category", "outros"))

normalize_sodre(data) ==
    LET Records(kept) == [i \in 1..Len(kept) |-> SodreRecord(kept[i])]
    IN  [exc |-> None, records |-> Records(SelectSeq(data, SodreKeeps))]

\* The registry of normalizers, in the order of its keys.
NORMALIZERS == <<"bradesco", "caixa", "sodre">>

\* ', '.join(NORMALIZERS.keys())
SupportedList == NORMALIZERS[1] \o ", " \o NORMALIZERS[2] \o ", " \o NORMALIZERS[3]

\* The keys of the registry.
Registered == {NORMALIZERS[i] : i \in 1..Len(NORMALIZERS)}

\* An error message that names neither the tag nor the supported tags.
UnsupportedMessageTerse(source) == "Fonte desconhecida"

\* The message of the ValueError normalize raises for a tag not in the registry.
UnsupportedMessage(source) ==
    "Fonte desconhecida: " \o source \o ". Suportadas: " \o SupportedList

\* NORMALIZERS.get(source.lower())(data), or None for a tag not in the registry.
RunNormalizer(source, data, clock) ==
    LET Run(tag) ==
            IF tag = "bradesco" THEN normalize_bradesco(data, clock)
            ELSE IF tag = "caixa" THEN normalize_caixa(data, clock)
            ELSE IF tag = "sodre" THEN normalize_sodre(data)
            ELSE None
    IN  Run(Lower(source))

\* Whether the final pass of normalize keeps a record.
ValidItem(item) == Truthy(item.external_id) /\ Truthy(item.link)

\* The final pass of normalize on a record it keeps.
ValidatedItem(item) ==
    IF Truthy(item.state) /\ Len(item.state) # 2
    THEN [item EXCEPT !.state = None] ELSE item

\* The final validation pass of normalize over the normalizer's records.
FinalPass(normalized) ==
    LET Validated(kept) == [i \in 1..Len(kept) |-> ValidatedItem(kept[i])]
    IN  Validated(SelectSeq(normalized, ValidItem))

\* normalize(source, data) called when the clock reads clock.  exc is None or
\* the exception the call ends with (msg its message); ran is the normalizer
\* the call invoked (None when it invoked none); normalized is the list the
\* normalizer returned and records the list normalize returns.
normalize(source, data, clock) ==
    IF Lower(source) \notin Registered
    THEN [exc |-> ValueError, msg |-> UnsupportedMessage(source),
          ran |-> None, normalized |-> <<>>, records |-> <<>>]
    ELSE LET Outcome(r) ==
                 IF r.exc # None
                 THEN [exc |-> r.exc, msg |-> "", ran |-> Lower(source),
                       normalized |-> <<>>, records |-> <<>>]
                 ELSE [exc |-> None, msg |-> "", ran |-> Lower(source),
                       normalized |-> r.records, records |-> FinalPass(r.records)]
         IN  Outcome(RunNormalizer(source, data, clock))

\* A normalizer given the list of the payload as its own list, its records
\* being the dicts of the payload.
KeepsPayloadDicts(tag) == tag # "sodre"

\* Whether the records of the list a normalizer returns are new dicts: each
\* normalizer appends a dict literal to a list of its own.
AppendsNewDicts(tag) == tag \in {"bradesco", "caixa", "sodre"}

\* The payload after normalize(source, data) has returned.  The call assigns
\* to one place only, the state of a record of the normalizer's list that the
\* final pass keeps; the payload holds what the assignment leaves there: it is
\* as before when the records are new dicts, and has the state replaced when
\* the records are its own dicts.
PayloadAfter(source, data, clock) ==
    LET Written(items) ==
            [i \in 1..Len(items) |->
                IF ValidItem(items[i]) THEN ValidatedItem(items[i]) ELSE items[i]]
        After(r) ==
            IF r.exc # None \/ r.ran = None THEN data
            ELSE IF AppendsNewDicts(r.ran) THEN data
            ELSE Written(data)
    IN  After(normalize(source, data, clock))

(***************************************************************************)
(* Upload paths (sodre_scraper.py, caixa_scraper.py)                       *)
(***************************************************************************)
\* Lot statuses the Sodre scraper keeps, as the decimal strings of the ids.
ACTIVE_STATUS == {"1", "2", "3"}

\* s.find(sub) + 1: the position of the first occurrence of sub in s, or 0.
Find(s, sub) ==
    LET First(hits) == IF hits = {} THEN 0 ELSE Min(hits)
    IN  First({i \in 1..(Len(s) - Len(sub) + 1) : SubSeq(s, i, i + Len(sub) - 1) = sub})

\* s.split(sep)[0] and s.split(sep)[1] for a separator that occurs in s.
SplitHead(s, sep) == Upto(s, Find(s, sep) - 1)
SplitSecond(s, sep) ==
    LET UpToNext(rest) ==
            IF Find(rest, sep) = 0 THEN rest ELSE Upto(rest, Find(rest, sep) - 1)
    IN  UpToNext(From(s, Find(s, sep) + Len(sep)))

\* str.isupper(): some cased character, and no lower-case one.
IsUpperStr(s) ==
    /\ \E i \in 1..Len(s) : Ch(s, i) \in CharsOf(UpperAll)
    /\ \A i \in 1..Len(s) : Ch(s, i) \notin CharsOf(LowerAll)

\* The city and the state SodreScraper.normalize_to_schema reads from a location.
LocationCity(location) ==
    IF Contains(location, "/") THEN Strip(SplitHead(location, "/"))
    ELSE IF Contains(location, " - ") THEN Strip(SplitHead(location, " - "))
    ELSE None
LocationState(location) ==
    LET Valid(state) ==
            IF Truthy(state) /\ (Len(state) # 2 \/ ~IsUpperStr(state)) THEN None ELSE state
    IN  IF Contains(location, "/") THEN Valid(Strip(SplitSecond(location, "/")))
        ELSE IF Contains(location, " - ") THEN Valid(Strip(SplitSecond(location, " - ")))
        ELSE None

\* The title SodreScraper.normalize_to_schema gives a lot.
LotTitle(lot) ==
    LET Fallback(brand_model) == IF brand_model # "" THEN brand_model ELSE "Sem título"
        Titled(title) ==
            IF title # "" THEN title
            ELSE Fallback(Strip(FStr(GetD(lot, "lot_brand", "")) \o " "
                                \o FStr(GetD(lot, "lot_model", ""))))
    IN  Titled(Strip(Or(Get(lot, "lot_title"), "")))

\* normalize_to_schema without the test of the status.
SchemaKeepsAnyStatus(lot) == Truthy(Or(Get(lot, "lot_id"), Get(lot, "id")))

\* Whether SodreScraper.normalize_to_schema returns a record for a lot (a dict):
\* the lot is active and has an id.
SchemaKeeps(lot) ==
    /\ Get(lot, "lot_status_id") \in ACTIVE_STATUS
    /\ Truthy(Or(Get(lot, "lot_id"), Get(lot, "id")))

\* The record SodreScraper.normalize_to_schema(lot, category_key) returns for a
\* lot it keeps; the model keeps the identifying fields, the title and the
\* location fields of the record.
normalize_to_schema(lot) ==
         LET Record(lot_id, location) ==
                 [source |-> "sodre",
                  external_id |-> "sodre_" \o lot_id,
                  title |-> LotTitle(lot),
                  city |-> LocationCity(location),
                  state |-> LocationState(location),
                  address |-> location,
                  link |-> "https://leilao.sodresantoro.com.br/leilao/"
                           \o FStr(Get(lot, "auction_id")) \o "/lote/" \o lot_id \o "/"]
         IN  Record(Or(Get(lot, "lot_id"), Get(lot, "id")),
                    Or(GetD(lot, "lot_location", ""), ""))

\* The list kept as it is, without the dict keyed by external_id.
KeepDuplicates(items) == items

\* list({item["external_id"]: item for item in items}.values()): one record per
\* id, at the place of the first record with the id, holding the last one.
UniqueById(items) ==
    LET IsFirst(i) == \A j \in 1..(i - 1) : items[j].external_id # items[i].external_id
        LastOf(i) ==
            items[Max({j \in 1..Len(items) : items[j].external_id = items[i].external_id})]
        Firsts(idx) == [k \in 1..Len(idx) |-> LastOf(idx[k])]
    IN  Firsts(SelectSeq([i \in 1..Len(items) |-> i], IsFirst))

\* The records save_checkpoint builds from the lots of a page.
CheckpointRecords(lots) ==
    LET Built(kept) == [i \in 1..Len(kept) |-> normalize_to_schema(kept[i])]
    IN  UniqueById(Built(SelectSeq(lots, SchemaKeeps)))

(***************************************************************************)
(* Inputs of the model                                                     *)
(***************************************************************************)
\* Records in one raw payload.
MaxItems == 2

\* Clock ticks (milliseconds) the model lets pass.
MaxTicks == 1

\* All sequences over S of length at most n.
SeqsUpTo(S, n) == UNION {[1..k -> S] : k \in 0..n}

\* The day the run takes place and the date 730 days before it.
Today == Ordinal(2026, 11, 5)
BoundaryDate == "05/11/2024"

ExampleAddress == "Rua A, Bairro B, Campinas - SP"

\* Raw bradesco records: one complete record and records that lack a field or
\* hold null or whitespace in it.
BradescoBase ==
    [id |-> "AB 1", descricao |-> ExampleAddress, tipo |-> "casa",
     cidade |-> "Campinas", valor |-> "R$ 1.234,56", endereco |-> Absent,
     leilao_data |-> BoundaryDate, link |-> "https://b/1", ano |-> "2026"]
BradescoItems ==
    {BradescoBase,
     [BradescoBase EXCEPT !.id = "ab_1", !.leilao_data = "2027-01-01"],
     [BradescoBase EXCEPT !.id = Absent, !.leilao_data = "01/01/2020"],
     [BradescoBase EXCEPT !.link = ""],
     [BradescoBase EXCEPT !.descricao = Absent, !.tipo = Absent, !.cidade = None],
     [BradescoBase EXCEPT !.descricao = Absent, !.tipo = None],
     [BradescoBase EXCEPT !.descricao = "  "]}

\* Raw caixa records.
CaixaBase ==
    [id |-> "AB 1", endereco |-> ExampleAddress, cidade |-> "Campinas",
     tipo |-> "Casa", descricao |-> "Casa 2 quartos", valor |-> "R$ 1.234,56",
     link |-> "https://c/1", cidade_codigo |-> "1234"]
CaixaItems ==
    {CaixaBase,
     [CaixaBase EXCEPT !.id = "ab_1"],
     [CaixaBase EXCEPT !.id = Absent, !.tipo = Absent, !.descricao = Absent],
     [CaixaBase EXCEPT !.id = "//", !.endereco = Absent],
     [CaixaBase EXCEPT !.link = Absent],
     [CaixaBase EXCEPT !.endereco = "Centro, Campinas - ZZ", !.tipo = "Predio",
                       !.descricao = "Predio industrial"],
     [CaixaBase EXCEPT !.endereco = "  "]}

\* Pre-normalized sodre records.
SodreBase ==
    [external_id |-> "sodre_1", link |-> "https://s/1", state |-> "SP",
     auction_date |-> "2026-11-20T10:00:00Z", category |-> "Outros",
     title |-> "Carro  usado", description |-> "Carro usado",
     description_preview |-> "Carro usado", value |-> "10.5",
     value_text |-> "R$ 10,50", city |-> "Campinas", address |-> "Campinas/SP",
     days_remaining |-> "15", metadata |-> Absent, auction_type |-> "Leilão",
     auction_name |-> Absent, store_name |-> Absent, lot_number |-> "7",
     total_visits |-> Absent, total_bids |-> "3", total_bidders |-> "0"]
SodreItems ==
    {SodreBase,
     [SodreBase EXCEPT !.external_id = "sodre_2", !.state = "SPX"],
     [SodreBase EXCEPT !.external_id = Absent],
     [SodreBase EXCEPT !.external_id = "sodre_3", !.link = ""],
     [SodreBase EXCEPT !.external_id = "sodre_4", !.link = Absent],
     [SodreBase EXCEPT !.external_id = "sodre_5", !.state = ""],
     [SodreBase EXCEPT !.external_id = "sodre_6", !.state = "zz",
                       !.auction_date = "amanhã"],
     [SodreBase EXCEPT !.external_id = "sodre_7", !.title = Absent, !.state = None]}

\* Region keys: a state code, a 2-letter key that is no state code, a longer key.
Regions == {"SP", "XX", "sao"}

\* Dicts keyed by region over the records S: empty, one region with up to
\* MaxItems records, or two regions with one record each.
DictPayloads(S) ==
    {<<>>}
    \cup {<<[estado |-> e, items |-> q]>> : e \in Regions, q \in SeqsUpTo(S, MaxItems)}
    \cup {<<[estado |-> e[1], items |-> <<q[1]>>], [estado |-> e[2], items |-> <<q[2]>>]>> :
            e \in {x \in Regions \X Regions : x[1] # x[2]}, q \in S \X S}

\* Source tags a caller passes.
Tags == {"bradesco", "caixa", "sodre", "SODRE", "unknown_source"}

\* The payloads of the right shape for a tag; an unregistered tag gets {}.
PayloadsFor(tag) ==
    IF Lower(tag) = "bradesco" THEN DictPayloads(BradescoItems)
    ELSE IF Lower(tag) = "caixa" THEN DictPayloads(CaixaItems)
    ELSE IF Lower(tag) = "sodre" THEN SeqsUpTo(SodreItems, MaxItems)
    ELSE {<<>>}

\* Segments and separators of the addresses given to parse_address, and the
\* longest address in segments.
MaxSegments == 4
Segments == {"Rua A", "Campinas", "SP"}
Separators == {", ", " - ", "/"}

\* The address of the docstring example, in segments.
ExampleSegments == <<"Rua A", "Bairro B", "Campinas", "SP">>
ExampleSeparators == <<", ", ", ", " - ">>

\* The text of an address: its segments with its separators between them.
AddressText(sg, sp) ==
    Join([i \in 1..(2 * Len(sg) - 1) |->
            IF i % 2 = 1 THEN sg[(i + 1) \div 2] ELSE sp[i \div 2]])

\* Addresses as pairs <<segments, separators>>: every address of up to
\* MaxSegments segments, the example, an empty and a whitespace-only text.
AddressShapes ==
    UNION {[1..n -> Segments] \X [1..(n - 1) -> Separators] : n \in 1..MaxSegments}
    \cup {<<ExampleSegments, ExampleSeparators>>, <<<<"">>, <<>>>>, <<<<"  ">>, <<>>>>}

\* Lots the Sodre API returns, some of them closed, without id or location.
LotBase ==
    [lot_id |-> "7", id |-> Absent, auction_id |-> "1", lot_status_id |-> "1",
     lot_title |-> " Carro usado ", lot_brand |-> Absent, lot_model |-> Absent,
     lot_location |-> "Campinas/SP"]
Lots ==
    {LotBase,
     [LotBase EXCEPT !.lot_id = "8", !.lot_location = "Campinas/"],
     [LotBase EXCEPT !.lot_id = Absent, !.id = "9", !.lot_title = None,
                     !.lot_brand = "Fiat", !.lot_location = "Campinas - sp"],
     [LotBase EXCEPT !.lot_title = "", !.lot_location = Absent],
     [LotBase EXCEPT !.lot_status_id = "4"],
     [LotBase EXCEPT !.lot_status_id = Absent, !.lot_id = "10"],
     [LotBase EXCEPT !.lot_id = Absent]}

(***************************************************************************)
(* State                                                                   *)
(***************************************************************************)
VARIABLES
    source,     \* the tag passed to normalize
    data,       \* the raw payload passed to normalize
    now,        \* the clock: [day, ms], what datetime.now() and time.time() read
    called,     \* calls of normalize so far, counted up to 2
    prev,       \* the result of the call before the last one
    result,     \* the result of the last call of normalize
    segs,       \* the segments of the text passed to parse_address
    seps,       \* the separators between them
    parsed,     \* the result of parse_address
    scraper,    \* the scraper that runs: "caixa" or "sodre"
    payload,    \* what it collected: a dict keyed by region, or a list of lots
    upload,     \* the outcome of its upload
    helper,     \* the helper of supabase_client.py that is called
    args,       \* the arguments of that call
    ret,        \* what the call returned
    rpc_available,  \* SupabaseClient._rpc_available
    n_items,    \* the number of records handed to upsert_normalized
    posts,      \* the requests upsert_normalized sent, in order
    stats,      \* the counts upsert_normalized returned
    pc,         \* where the run of scrape_all (Sodre or Caixa) stands
    elapsed,    \* time.time() - self.start_time, in waits
    should_stop,        \* SodreScraper.should_stop
    category_count,     \* scrape_all: the categories started
    all_lots,           \* scrape_all: the records of the categories collected
    category_lots,      \* collect_category: its all_lots, the lots of the pages
    from_offset,        \* collect_category: the offset of the next request
    consecutive_errors, \* collect_category: the failed calls of fetch_page in a row
    checkpoint_counter, \* collect_category: the checkpoints written
    attempt,    \* fetch_page: the requests the call has sent
    response,   \* fetch_page: the answer to the last request
    fetched,    \* what the last call of fetch_page returned
    pages,      \* the non-empty pages the call of collect_category accumulated
    seen,       \* every lot (Sodre) or record (Caixa) the run accumulated
    checkpoint, \* the list the last save_checkpoint wrote
    returned,   \* what SodreScraper.scrape_all returned
    estados_started,    \* CaixaScraper.scrape_all: the states its loop entered
    cidades_done,       \* the cities of the state it has been through
    resultado_por_estado,   \* its dict, as (estado, imoveis) pairs in order
    cards,      \* what parse_imoveis returned for the last city
    imoveis     \* what coletar_imoveis returned for the last city

normVars == <<source, data, now, called, prev, result>>
addrVars == <<segs, seps, parsed>>
uploadVars == <<scraper, payload, upload>>
helperVars == <<helper, args, ret>>
upsertVars == <<rpc_available, n_items, posts, stats>>
clockVars == <<elapsed, should_stop>>
fetchVars == <<attempt, response, fetched>>
categoryVars == <<category_lots, from_offset, consecutive_errors, checkpoint_counter,
                  pages, seen, checkpoint>>
sodreVars == <<category_count, all_lots, categoryVars, fetchVars, returned>>
caixaVars == <<estados_started, cidades_done, resultado_por_estado, cards, imoveis>>
scrapeVars == <<pc, clockVars, sodreVars, caixaVars>>
vars == <<normVars, addrVars, uploadVars, helperVars, upsertVars, scrapeVars>>

\* Before the first call of normalize.
NoResult ==
    [exc |-> None, msg |-> "", ran |-> None, normalized |-> <<>>, records |-> <<>>]

\* Before the call of parse_address.
Unparsed == [exc |-> "<unparsed>", address |-> None, city |-> None, state |-> None]

\* Before the upload.  handed is the list given to insert_normalized, passed the
\* list the final validation pass of normalize returned, returned the value
\* upload_to_supabase returns.
NoUpload == [done |-> FALSE, handed |-> <<>>, passed |-> <<>>, returned |-> FALSE]

\* No call of normalize, no parse_address and no upload takes place.
NoNormalize ==
    /\ source = "" /\ data = <<>> /\ now = [day |-> Today, ms |-> 0]
    /\ called = 0 /\ prev = NoResult /\ result = NoResult
NoParse == segs = <<>> /\ seps = <<>> /\ parsed = Unparsed
NoScraper == scraper = "" /\ payload = <<>> /\ upload = NoUpload

\* Before the call of a helper.
NotCalled == "<not called>"

\* The counts before upsert_normalized has returned (done tells whether it has).
NoStats == [done |-> FALSE, inserted |-> 0, updated |-> 0, errors |-> 0]

\* No helper is called on its own and no storage client exists.
NoHelper == helper = "" /\ args = <<>> /\ ret = NotCalled
NoClient == rpc_available = None /\ n_items = 0 /\ posts = <<>> /\ stats = NoStats

\* Python's None where a decoded JSON body (a dict) is expected.
NoData == [json |-> "null"]

\* Before the first request of a call of fetch_page, and before its return.
NoResponse == [raises |-> None, status |-> None, body |-> NoData]
NoFetch == [data |-> NoData, error |-> None]

\* No scraper runs its collection loop.
NoScrape ==
    /\ pc = "" /\ elapsed = 0 /\ should_stop = FALSE
    /\ category_count = 0 /\ all_lots = <<>> /\ returned = <<>>
    /\ category_lots = <<>> /\ from_offset = 0 /\ consecutive_errors = 0
    /\ checkpoint_counter = 0 /\ pages = 0 /\ seen = {} /\ checkpoint = <<>>
    /\ attempt = 0 /\ response = NoResponse /\ fetched = NoFetch
    /\ estados_started = 0 /\ cidades_done = 0 /\ resultado_por_estado = <<>>
    /\ cards = <<>> /\ imoveis = <<>>

Init ==
    /\ source \in Tags
    /\ data \in PayloadsFor(source)
    /\ now = [day |-> Today, ms |-> 0]
    /\ called = 0
    /\ prev = NoResult
    /\ result = NoResult
    /\ NoParse
    /\ NoScraper
    /\ NoHelper
    /\ NoClient
    /\ NoScrape

\* Time passes: the clock advances by one millisecond.
Tick ==
    /\ now.ms < MaxTicks
    /\ now' = [now EXCEPT !.ms = now.ms + 1]
    /\ UNCHANGED <<source, data, called, prev, result, addrVars, uploadVars, helperVars, upsertVars, scrapeVars>>

\* A call normalize(source, data): it returns its records and leaves the
\* payload as PayloadAfter tells.
Normalize ==
    /\ result' = normalize(source, data, now)
    /\ data' = PayloadAfter(source, data, now)
    /\ prev' = result
    /\ called' = IF called < 2 THEN called + 1 ELSE 2
    /\ UNCHANGED <<source, now, addrVars, uploadVars, helperVars, upsertVars, scrapeVars>>

Next == Tick \/ Normalize

Spec == Init /\ [][Next]_vars

(***************************************************************************)
(* parse_address on addresses built from segments                          *)
(***************************************************************************)
InitAddr ==
    /\ NoNormalize
    /\ NoScraper
    /\ NoHelper
    /\ NoClient
    /\ NoScrape
    /\ \E shape \in AddressShapes : segs = shape[1] /\ seps = shape[2]
    /\ parsed = Unparsed

\* The call parse_address(text).
ParseAddress ==
    /\ parsed = Unparsed
    /\ parsed' = parse_address(AddressText(segs, seps))
    /\ UNCHANGED <<normVars, segs, seps, uploadVars, helperVars, upsertVars, scrapeVars>>

NextAddr == ParseAddress

SpecAddr == InitAddr /\ [][NextAddr]_vars

(***************************************************************************)
(* The uploads of the two scrapers                                         *)
(***************************************************************************)
InitUpload ==
    /\ NoNormalize
    /\ NoParse
    /\ scraper \in {"caixa", "sodre"}
    /\ payload \in IF scraper = "caixa" THEN DictPayloads(CaixaItems)
                   ELSE SeqsUpTo(Lots, MaxItems)
    /\ upload = NoUpload
    /\ NoHelper
    /\ NoClient
    /\ NoScrape

\* The outcome of upload_to_supabase: SupabaseClient() raises when the
\* environment is not configured and no record is handed on; otherwise
\* insert_normalized gets the list and stored tells whether the storage
\* reported a record inserted or updated.
Uploaded(configured, stored, handed, passed) ==
    IF configured
    THEN [done |-> TRUE, handed |-> handed, passed |-> passed,
          returned |-> stored /\ handed # <<>>]
    ELSE [done |-> TRUE, handed |-> <<>>, passed |-> <<>>, returned |-> FALSE]

\* caixa_scraper.upload_to_supabase(data): normalize('caixa', data), then
\* insert_normalized on a list that is not empty.
CaixaUpload ==
    /\ scraper = "caixa" /\ ~upload.done
    /\ \E configured, stored \in BOOLEAN :
        LET Outcome(r) ==
                IF r.exc # None THEN Uploaded(configured, FALSE, <<>>, <<>>)
                ELSE Uploaded(configured, stored, r.records, r.records)
        IN  upload' = Outcome(normalize("caixa", payload, now))
    /\ UNCHANGED <<normVars, addrVars, scraper, payload, helperVars, upsertVars, scrapeVars>>

\* SodreScraper.save_checkpoint(lots, ...): the records of the lots, one per
\* id, go to sodre_scraper.upload_to_supabase, which hands them to
\* insert_normalized as they are.
SaveCheckpoint ==
    /\ scraper = "sodre" /\ ~upload.done
    /\ \E configured, stored \in BOOLEAN :
        LET Outcome(items) ==
                IF items = <<>> THEN Uploaded(FALSE, FALSE, <<>>, <<>>)
                ELSE Uploaded(configured, stored, items, <<>>)
        IN  upload' = Outcome(CheckpointRecords(payload))
    /\ UNCHANGED <<normVars, addrVars, scraper, payload, helperVars, upsertVars, scrapeVars>>

NextUpload == CaixaUpload \/ SaveCheckpoint

SpecUpload == InitUpload /\ [][NextUpload]_vars

(***************************************************************************)
(* Properties of normalize                                                 *)
(***************************************************************************)
\* The records of the last call of normalize.
Records == result.records

\* C1: every record normalize returns for a registered source has a non-empty
\* external_id, a non-empty link, and a state that is null or exactly 2
\* characters long.
EveryRecordAcceptable ==
    \A i \in 1..Len(Records) :
        /\ Truthy(Records[i].external_id)
        /\ Truthy(Records[i].link)
        /\ (Records[i].state = None \/ Len(Records[i].state) = 2)

\* C2: every record normalize returns has a state that is null or one of the
\* 27 state codes, whether it comes from the region key, from the address
\* parser or from a pre-normalized record.
EveryStateIsUF ==
    \A i \in 1..Len(Records) : Records[i].state = None \/ Records[i].state \in UFS

\* C3: normalize for a registered source never raises on a payload of the
\* right shape whose records have fields absent, null or whitespace-only.
RegisteredNeverRaises ==
    (called > 0 /\ Lower(source) \in Registered) => result.exc = None

\* C5 as stated: a call with a tag that is not one of the registry's keys ends
\* with the unsupported-source error, whose message names the tag and the
\* supported tags, returns no list and invokes no normalizer.
UnlistedTagFails ==
    (called > 0 /\ source \notin Registered) =>
        /\ result.exc = ValueError
        /\ Contains(result.msg, source)
        /\ \A i \in 1..Len(NORMALIZERS) : Contains(result.msg, NORMALIZERS[i])
        /\ result.ran = None

\* C5 amended: a call with a tag whose lower-case form is not one of the
\* registry's keys ends with the unsupported-source error, whose message names
\* the tag and the supported tags, returns no list and invokes no normalizer;
\* a tag that differs from a key only in case is dispatched to that key's
\* normalizer.
UnknownTagFails ==
    /\ (called > 0 /\ Lower(source) \notin Registered) =>
            /\ result.exc = ValueError
            /\ Contains(result.msg, source)
            /\ \A i \in 1..Len(NORMALIZERS) : Contains(result.msg, NORMALIZERS[i])
            /\ result.ran = None
            /\ result.records = <<>>
    /\ (called > 0 /\ Lower(source) \in Registered) =>
            /\ result.exc # ValueError
            /\ result.ran = Lower(source)

\* C5: a call with the tag unknown_source has ended with the error.
UnknownTagCalled ==
    called > 0 /\ source = "unknown_source" /\ result.exc = ValueError

\* Whether a pre-normalized input record has both external_id and link.
Complete(item) ==
    /\ item.external_id \notin {Absent, None, ""}
    /\ item.link \notin {Absent, None, ""}

\* C6: normalize_sodre itself drops every input record whose external_id or
\* link is missing or empty: its output is shorter than its input whenever
\* such a record is present, and the other input records yield one output
\* record each, in input order.
SodreDropsIncomplete ==
    (called > 0 /\ result.ran = "sodre") =>
        LET out == result.normalized
            complete == SelectSeq(data, Complete)
        IN  /\ Len(out) = Len(complete)
            /\ (\E i \in 1..Len(data) : ~Complete(data[i])) => Len(out) < Len(data)
            /\ \A k \in 1..Len(out) :
                /\ out[k].external_id = complete[k].external_id
                /\ out[k].link = complete[k].link

\* C6: normalize_sodre got a record without link next to a complete one and
\* returned one record.
SodreDroppedOne ==
    /\ called > 0 /\ result.ran = "sodre" /\ Len(data) = 2
    /\ \E i \in 1..2 : data[i].link \in {Absent, ""} /\ data[i].external_id # Absent
    /\ Len(result.normalized) = 1

\* C8: within the output of one call, two distinct input records of the same
\* source (records whose raw ids differ, or records without raw id) never
\* receive the same external_id.
ExternalIdsUnique ==
    result.ran \in {"bradesco", "caixa"} =>
        \A i, j \in 1..Len(Records) :
            (/\ i # j
             /\ \/ Records[i].metadata.original_id # Records[j].metadata.original_id
                \/ Records[i].metadata.original_id = None)
            => Records[i].external_id # Records[j].external_id

\* C9 as stated: two calls with the same tag and the same payload return equal
\* record sequences, whatever the time of the call.
NormalizeIsPure ==
    called = 2 => (prev.exc = result.exc /\ prev.records = result.records)

\* A record without the two fields that read the clock: the external_id of a
\* record that has no raw id, and the auction_date.
Timeless(r) ==
    [r EXCEPT !.auction_date = None,
              !.external_id = IF Truthy(r.metadata.original_id) THEN @ ELSE None]

\* C9 amended: two calls with the same tag and the same payload raise the same
\* exception or return record sequences that are equal except for the
\* external_id of a record that has no raw id (it holds the time of the call)
\* and for an auction_date, which one of the calls may null when the date
\* leaves the 730-day window between them.
NormalizeReadsOnlyTheClock ==
    called = 2 =>
        /\ prev.exc = result.exc
        /\ Len(prev.records) = Len(result.records)
        /\ result.ran = "sodre" => prev.records = result.records
        /\ result.ran \in {"bradesco", "caixa"} =>
             \A i \in 1..Len(result.records) :
                /\ Timeless(prev.records[i]) = Timeless(result.records[i])
                /\ \/ prev.records[i].auction_date = result.records[i].auction_date
                   \/ None \in {prev.records[i].auction_date, result.records[i].auction_date}

\* C9: two calls at different times returned different record sequences.
CallsDiffered ==
    called = 2 /\ prev.exc = None /\ result.exc = None /\ prev.records # result.records

\* C10: every record normalize returns has a non-empty title.
EveryTitleNonEmpty ==
    \A i \in 1..Len(Records) : Truthy(Records[i].title)

(***************************************************************************)
(* Properties of parse_address                                             *)
(***************************************************************************)
\* Whether a separator holds '-' or ','.
DashOrComma(sep) == Contains(sep, "-") \/ Contains(sep, ",")

\* The first pattern matches an address in segments: it ends in a code of two
\* capitals after a '-' or ',' separator, and has an earlier such separator.
FirstPatternCase ==
    /\ parsed # Unparsed
    /\ Len(segs) >= 3
    /\ Len(segs[Len(segs)]) = 2
    /\ \A i \in 1..2 : IsUpperAZ(Ch(segs[Len(segs)], i))
    /\ DashOrComma(seps[Len(seps)])
    /\ \E j \in 1..(Len(seps) - 1) : DashOrComma(seps[j])

\* The '-' or ',' separator before the last separator.
SecondToLast == Max({j \in 1..(Len(seps) - 1) : DashOrComma(seps[j])})

\* C7 as stated: when the first pattern matches, address is the first segment,
\* city the segment after it and state the trailing code, as in
\* "Rua A, Bairro B, Campinas - SP" giving "Rua A", "Bairro B", "SP".
FirstSegmentSplit ==
    FirstPatternCase =>
        /\ parsed.address = segs[1]
        /\ parsed.city = segs[2]
        /\ parsed.state = segs[Len(segs)]

\* C7 amended: when the first pattern matches, address is the text before the
\* second-to-last '-' or ',' separator, city the text between the last two
\* such separators and state the trailing code, as in
\* "Rua A, Bairro B, Campinas - SP" giving "Rua A, Bairro B", "Campinas", "SP".
LastSegmentsSplit ==
    FirstPatternCase =>
        /\ parsed.exc = None
        /\ parsed.address = AddressText(SubSeq(segs, 1, SecondToLast),
                                        SubSeq(seps, 1, SecondToLast - 1))
        /\ parsed.city = AddressText(SubSeq(segs, SecondToLast + 1, Len(segs) - 1),
                                     SubSeq(seps, SecondToLast + 1, Len(seps) - 1))
        /\ parsed.state = segs[Len(segs)]

\* C7: parse_address has split the example into "Rua A, Bairro B" and "Campinas".
ExampleParsed ==
    /\ FirstPatternCase
    /\ AddressText(segs, seps) = ExampleAddress
    /\ parsed.address = "Rua A, Bairro B"
    /\ parsed.city = "Campinas"
    /\ parsed.state = "SP"

(***************************************************************************)
(* Properties of the uploads                                               *)
(***************************************************************************)
\* C4: every record handed to insert_normalized by the Caixa and the Sodre
\* upload paths has passed the final validation pass of normalize.
UploadsOnlyValidated ==
    \A i \in 1..Len(upload.handed) :
        \E j \in 1..Len(upload.passed) : upload.passed[j] = upload.handed[i]

(***************************************************************************)
(* The helpers called on their own                                         *)
(***************************************************************************)
\* Bounds of the arguments: the length of a text, the largest max_len and
\* the length of a raw id.
MaxTextLen == 4
MaxCut == 3
MaxIdLen == 3

\* The strings of at most n characters over the set chars.
StringsOver(chars, n) == {Join(f) : f \in SeqsUpTo(chars, n)}

\* The arguments a helper is called with.  A text of clean_text mixes a
\* letter, two kinds of whitespace and two control characters; max_len 0
\* stands for a call without max_len.
HelperArgs(h) ==
    CASE h = "clean_text" ->
           {[text |-> t, max_len |-> m] :
               t \in StringsOver({"a", " ", "\t", SOH, DEL}, MaxTextLen) \cup {None},
               m \in 0..MaxCut}
      [] h = "parse_date" ->
           {[y |-> ymd[1], m |-> ymd[2], d |-> ymd[3], style |-> s,
             before |-> b, after |-> a, clock |-> [day |-> Today, ms |-> t]] :
               ymd \in {<<2020, 2, 29>>, <<2024, 11, 4>>, <<2024, 11, 5>>,
                        <<2024, 11, 6>>, <<2026, 11, 5>>, <<2026, 11, 6>>,
                        <<2030, 12, 31>>, <<2025, 2, 30>>, <<2026, 13, 1>>},
               s \in {"DD/MM/YYYY", "YYYY-MM-DD"},
               b \in {"", "Data: "}, a \in {"", " 10h30"},
               t \in 0..MaxTicks}
      [] h = "extract_state" ->
           {[text |-> head \o tail] :
               head \in {"", "SP", "rj centro", "Centro", "Rio XX", "Av. MG sul"},
               tail \in {"", " - SP", "/rj", "-XX", " - SPX", " / mg ", " - xx",
                         " - S1", " SP"}} \cup {[text |-> None]}
      [] h = "generate_clean_external_id" ->
           {[source |-> s, raw_id |-> r, clock |-> [day |-> Today, ms |-> 0]] :
               s \in {"caixa", "bradesco"},
               r \in StringsOver({"A", "b", "1", "-", "_", " ", "/", "é"}, MaxIdLen)
                     \cup {"AB 123//45", None}}
      [] h = "extract_category" ->
           {[text |-> t, tipo |-> f] :
               t \in {None, "", "Predio industrial", "CASAMENTO"}
                     \cup {w1 \o " " \o w2 :
                             w1, w2 \in {"Apartamento", "apto", "Casa", "terreno",
                                         "LOTE", "sala comercial", "loja", "carro",
                                         "sedan", "hatch", "moto", "motocicleta",
                                         "caminhão", "truck", "van", "Kombi",
                                         "sala", "predio"}},
               f \in {None, "", "imovel", "PREDIO"}}

\* The text passed to parse_date: the date a.d, a.m, a.y written in the style
\* a.style, with two digits for the day and the month, between two texts.
DateText(a) ==
    LET Two(n) == IF n < 10 THEN "0" \o ToString(n) ELSE ToString(n)
    IN  a.before
        \o (IF a.style = "YYYY-MM-DD"
            THEN ToString(a.y) \o "-" \o Two(a.m) \o "-" \o Two(a.d)
            ELSE Two(a.d) \o "/" \o Two(a.m) \o "/" \o ToString(a.y))
        \o a.after

InitHelper ==
    /\ NoNormalize
    /\ NoParse
    /\ NoScraper
    /\ NoClient
    /\ NoScrape
    /\ helper \in {"clean_text", "parse_date", "extract_state",
                   "generate_clean_external_id", "extract_category"}
    /\ args \in HelperArgs(helper)
    /\ ret = NotCalled

CleanText ==
    /\ helper = "clean_text" /\ ret = NotCalled
    /\ ret' = clean_text(args.text, args.max_len)
    /\ UNCHANGED <<normVars, addrVars, uploadVars, helper, args, upsertVars, scrapeVars>>

ParseDate ==
    /\ helper = "parse_date" /\ ret = NotCalled
    /\ ret' = parse_date(DateText(args), args.clock)
    /\ UNCHANGED <<normVars, addrVars, uploadVars, helper, args, upsertVars, scrapeVars>>

ExtractState ==
    /\ helper = "extract_state" /\ ret = NotCalled
    /\ ret' = extract_state(args.text)
    /\ UNCHANGED <<normVars, addrVars, uploadVars, helper, args, upsertVars, scrapeVars>>

GenerateCleanExternalId ==
    /\ helper = "generate_clean_external_id" /\ ret = NotCalled
    /\ ret' = generate_clean_external_id(args.source, args.raw_id, args.clock)
    /\ UNCHANGED <<normVars, addrVars, uploadVars, helper, args, upsertVars, scrapeVars>>

ExtractCategory ==
    /\ helper = "extract_category" /\ ret = NotCalled
    /\ ret' = extract_category(args.text, args.tipo)
    /\ UNCHANGED <<normVars, addrVars, uploadVars, helper, args, upsertVars, scrapeVars>>

NextHelper ==
    \/ CleanText
    \/ ParseDate
    \/ ExtractState
    \/ GenerateCleanExternalId
    \/ ExtractCategory

SpecHelper == InitHelper /\ [][NextHelper]_vars

(***************************************************************************)
(* Properties of the helpers                                               *)
(***************************************************************************)
\* C11: whatever the text and max_len, clean_text returns None or a string
\* that is not empty; it never returns "".
CleanTextNeverEmpty == helper = "clean_text" => ret # ""

\* C11 witness: a text of whitespace and control characters only, for which
\* the cleaning leaves nothing, gave None.
BlankTextGaveNone ==
    /\ helper = "clean_text" /\ ret = None
    /\ args.text \notin {None, ""}
    /\ \E i \in 1..Len(args.text) : Ch(args.text, i) \in ControlChars \ SpaceChars

\* C12: a result of clean_text without max_len that is not None holds no
\* control character, no two whitespace characters in a row and no
\* whitespace at either end.
CleanTextIsClean ==
    (helper = "clean_text" /\ args.max_len = 0 /\ ret \notin {NotCalled, None}) =>
        /\ \A i \in 1..Len(ret) : Ch(ret, i) \notin ControlChars
        /\ \A i \in 1..(Len(ret) - 1) : ~(IsSpace(Ch(ret, i)) /\ IsSpace(Ch(ret, i + 1)))
        /\ ~IsSpace(Ch(ret, 1))
        /\ ~IsSpace(Ch(ret, Len(ret)))

\* C13: when the cleaned text is longer than max_len, the result is a prefix
\* of the cleaned text followed by the ellipsis; the prefix has at most
\* max_len characters and does not end in the middle of a word, that is, its
\* last character and the character after it are not both part of a word.
TruncatesAtWordBoundary ==
    LET Boundary(cleaned, n) ==
            n = 0 \/ IsSpace(Ch(cleaned, n)) \/ IsSpace(Ch(cleaned, n + 1))
        Cut(cleaned) ==
            (cleaned # None /\ Len(cleaned) > args.max_len) =>
                \E n \in 0..args.max_len :
                    /\ ret = Upto(cleaned, n) \o Ellipsis
                    /\ Boundary(cleaned, n)
    IN  (helper = "clean_text" /\ args.max_len > 0 /\ ret # NotCalled) =>
            Cut(clean_text(args.text, 0))

\* C14: for a text that holds a valid date, parse_date returns the date as
\* YYYY-MM-DD exactly when the date (its midnight) is not more than 730 days
\* before the time of the call, and None otherwise.  A date in the future is
\* returned; a date whose midnight lies exactly 730 days before the call is
\* returned.
ParseDateWindow ==
    LET Two(n) == IF n < 10 THEN "0" \o ToString(n) ELSE ToString(n)
        Canonical == ToString(args.y) \o "-" \o Two(args.m) \o "-" \o Two(args.d)
        Valid == args.m \in 1..12 /\ args.d \in 1..DaysInMonth(args.y, args.m)
        \* whole days from the midnight of the date to the midnight of today
        Age == args.clock.day - Ordinal(args.y, args.m, args.d)
        Within == Age < 730 \/ (Age = 730 /\ args.clock.ms = 0)
    IN  (helper = "parse_date" /\ ret # NotCalled /\ Valid) =>
            ret = IF Within THEN Canonical ELSE None

\* C14 witness: at midnight, the date 730 days before today was returned.
BoundaryDateReturned ==
    /\ helper = "parse_date" /\ ret \notin {NotCalled, None}
    /\ args.clock.ms = 0
    /\ args.clock.day - Ordinal(args.y, args.m, args.d) = 730

\* C15: extract_state returns the two-letter code that ends the upper-cased
\* text after '-' or '/' when that code is a state code; otherwise it returns
\* the first whitespace-separated token that is a state code; it returns
\* None only when there is neither.
StateFallsBackToTokens ==
    LET FirstUF(words) ==
            IF \E i \in 1..Len(words) : words[i] \in UFS
            THEN words[Min({i \in 1..Len(words) : words[i] \in UFS})]
            ELSE None
        EndCode(t, pos) == IF pos = 0 THEN None ELSE TailCode(t, pos)
        Expected(t, code) == IF code \in UFS THEN code ELSE FirstUF(SplitWords(t))
        OnUpper(t) == Expected(t, EndCode(t, StateEndPos(t)))
    IN  (helper = "extract_state" /\ ret # NotCalled /\ Truthy(args.text)) =>
            ret = OnUpper(Upper(args.text))

\* C16: for a raw id that is not empty, the identifier is the source, '_' and
\* the slug of the raw id: the maximal runs of characters of [a-z0-9-] of the
\* lower-cased raw id, in order, joined by single '_' (which is the lower-cased
\* raw id with every other character replaced by '_', runs of '_' collapsed
\* and '_' removed from both ends).
SlugOfRawId ==
    LET Kept == CharsOf("abcdefghijklmnopqrstuvwxyz0123456789-")
        Spaced(low) == Join([i \in 1..Len(low) |->
                               IF Ch(low, i) \in Kept THEN Ch(low, i) ELSE " "])
        Joined(runs) == Join([i \in 1..Len(runs) |->
                                IF i = 1 THEN runs[i] ELSE "_" \o runs[i]])
        Slug(raw_id) == Joined(SplitWords(Spaced(Lower(raw_id))))
    IN  (helper = "generate_clean_external_id" /\ ret # NotCalled /\ Truthy(args.raw_id)) =>
            ret = args.source \o "_" \o Slug(args.raw_id)

\* C16 witness: the raw id "AB 123//45" of the source caixa gave
\* "caixa_ab_123_45".
ExampleSlugged ==
    /\ helper = "generate_clean_external_id"
    /\ args.source = "caixa" /\ args.raw_id = "AB 123//45"
    /\ ret = "caixa_ab_123_45"

\* C17: extract_category returns the category of the first keyword group, in
\* the order apartment, house, land, commercial, car, motorcycle, truck, van,
\* one of whose keywords occurs in the lower-cased text; when no keyword
\* occurs (the text may be absent or empty) it returns the capitalized
\* fallback type when one is given, and None only when none is given.
CategoryByPriorityOrFallback ==
    LET Groups == << <<{"apartamento", "apto"}, "Apartamento">>,
                     <<{"casa"}, "Casa">>,
                     <<{"terreno", "lote"}, "Terreno">>,
                     <<{"sala comercial", "loja"}, "Comercial">>,
                     <<{"carro", "sedan", "hatch"}, "Carro">>,
                     <<{"moto", "motocicleta"}, "Moto">>,
                     <<{"caminhão", "truck"}, "Caminhão">>,
                     <<{"van", "kombi"}, "Van">> >>
        Hits(t) == {g \in 1..Len(Groups) : \E k \in Groups[g][1] : Contains(t, k)}
        Fallback == IF Truthy(args.tipo) THEN Capitalize(args.tipo) ELSE None
        Expected(hits) == IF hits = {} THEN Fallback ELSE Groups[Min(hits)][2]
    IN  (helper = "extract_category" /\ ret # NotCalled) =>
            ret = Expected(IF Truthy(args.text) THEN Hits(Lower(args.text)) ELSE {})

(***************************************************************************)
(* Properties of normalize_caixa                                           *)
(***************************************************************************)
\* C18: a caixa record in whose tipo and descricao no category keyword
\* occurs, or that has neither, gets the category 'Imóveis'.
CaixaGenericBucket ==
    LET Keywords == {"apartamento", "apto", "casa", "terreno", "lote",
                     "sala comercial", "loja", "carro", "sedan", "hatch", "moto",
                     "motocicleta", "caminhão", "truck", "van", "kombi"}
        NoKeyword(text) ==
            ~Truthy(text) \/ \A k \in Keywords : ~Contains(Lower(text), k)
    IN  result.ran = "caixa" =>
            \A i \in 1..Len(Records) :
                (NoKeyword(Records[i].metadata.tipo) /\ NoKeyword(Records[i].description)) =>
                    Records[i].category = "Imóveis"

(***************************************************************************)
(* The storage client (SupabaseClient)                                     *)
(*                                                                         *)
(* The records handed to upsert_normalized are numbered 1..n_items; a      *)
(* batch is the range [first, last] of the records it holds.  A request    *)
(* sent is a record [path, first, last, reply, stats]: path tells the      *)
(* endpoint ("rpc" for rpc/upsert_auctions_v2, "insert" for the auctions   *)
(* table), reply what came back and stats the counts after the batch.      *)
(* The duration time_ms of the returned counts is left out.                *)
(***************************************************************************)
\* batch_size of _upsert_via_rpc and the step of _upsert_fallback.
RpcBatchSize == 500
FallbackBatchSize == 200

\* The numbers of records handed over: the multiples of SizeStep up to
\* MaxSteps * SizeStep.
SizeStep == 100
MaxSteps == 11

\* Only the full batches: the records after the last full batch are left out.
FullBatches(n, size) ==
    [k \in 1..(n \div size) |-> [first |-> (k - 1) * size + 1, last |-> k * size]]

\* for i in range(0, len(items), size): batch = items[i:i+size]
Batches(n, size) ==
    [k \in 1..((n + size - 1) \div size) |->
        [first |-> (k - 1) * size + 1, last |-> Min({k * size, n})]]

\* The requests of the first k rounds of the loop of _upsert_via_rpc over n
\* records.  replies[k] is what the k-th request meets: status 200 with a
\* result that reports the whole batch inserted ("inserted"), updated
\* ("updated") or one record in error and the others inserted ("partial"); a
\* status 404, the function being unavailable; or an exception.
RECURSIVE upsert_via_rpc(_, _, _)
upsert_via_rpc(n, replies, k) ==
    IF k = 0 THEN <<>>
    ELSE LET Round(before, batch, reply, size) ==
                 [done |-> FALSE,
                  inserted |-> before.inserted
                               + (IF reply = "inserted" THEN size
                                  ELSE IF reply = "partial" THEN size - 1 ELSE 0),
                  updated |-> before.updated + (IF reply = "updated" THEN size ELSE 0),
                  errors |-> before.errors
                             + (IF reply = "partial" THEN 1
                                ELSE IF reply \in {"404", "exception"} THEN size ELSE 0)]
             Send(sent, batch) ==
                 Append(sent,
                        [path |-> "rpc", first |-> batch.first, last |-> batch.last,
                         reply |-> replies[k],
                         stats |-> Round(IF sent = <<>> THEN NoStats
                                         ELSE sent[Len(sent)].stats,
                                         batch, replies[k], batch.last - batch.first + 1)])
         IN  Send(upsert_via_rpc(n, replies, k - 1), Batches(n, RpcBatchSize)[k])

\* The requests of the first k rounds of the loop of _upsert_fallback:
\* replies[k] is status 201, status 400 or an exception.
RECURSIVE upsert_fallback(_, _, _)
upsert_fallback(n, replies, k) ==
    IF k = 0 THEN <<>>
    ELSE LET Round(before, batch, reply, size) ==
                 [done |-> FALSE,
                  inserted |-> before.inserted + (IF reply = "201" THEN size ELSE 0),
                  updated |-> before.updated,
                  errors |-> before.errors + (IF reply = "201" THEN 0 ELSE size)]
             Send(sent, batch) ==
                 Append(sent,
                        [path |-> "insert", first |-> batch.first, last |-> batch.last,
                         reply |-> replies[k],
                         stats |-> Round(IF sent = <<>> THEN NoStats
                                         ELSE sent[Len(sent)].stats,
                                         batch, replies[k], batch.last - batch.first + 1)])
         IN  Send(upsert_fallback(n, replies, k - 1), Batches(n, FallbackBatchSize)[k])

InitUpsert ==
    /\ NoNormalize
    /\ NoParse
    /\ NoScraper
    /\ NoHelper
    /\ NoScrape
    /\ rpc_available = None
    /\ n_items \in {k * SizeStep : k \in 0..MaxSteps}
    /\ posts = <<>>
    /\ stats = NoStats

\* SupabaseClient(): __init__ ends with _check_rpc_availability, which posts an
\* empty list to the function and keeps whether the status was 200 or 201; an
\* exception counts as unavailable.
Construct ==
    /\ rpc_available = None
    /\ \E probe \in {"200", "201", "404", "exception"} :
        rpc_available' = IF probe \in {"200", "201"} THEN "True" ELSE "False"
    /\ UNCHANGED <<normVars, addrVars, uploadVars, helperVars, n_items, posts, stats,
                   scrapeVars>>

\* client.upsert_normalized(items): nothing is sent for an empty list;
\* otherwise the whole list goes through the path _rpc_available selects.
UpsertNormalized ==
    /\ rpc_available # None /\ ~stats.done
    /\ LET Returned(sent) ==
               /\ posts' = sent
               /\ stats' = [(IF sent = <<>> THEN NoStats ELSE sent[Len(sent)].stats)
                            EXCEPT !.done = TRUE]
           ViaRpc(rounds) ==
               \E replies \in [1..rounds ->
                                 {"inserted", "updated", "partial", "404", "exception"}] :
                   Returned(upsert_via_rpc(n_items, replies, rounds))
           Fallback(rounds) ==
               \E replies \in [1..rounds -> {"201", "400", "exception"}] :
                   Returned(upsert_fallback(n_items, replies, rounds))
       IN  IF n_items = 0 THEN Returned(<<>>)
           ELSE IF rpc_available = "True"
                THEN ViaRpc(Len(Batches(n_items, RpcBatchSize)))
                ELSE Fallback(Len(Batches(n_items, FallbackBatchSize)))
    /\ UNCHANGED <<normVars, addrVars, uploadVars, helperVars, rpc_available, n_items,
                   scrapeVars>>

NextUpsert == Construct \/ UpsertNormalized

SpecUpsert == InitUpsert /\ [][NextUpsert]_vars

(***************************************************************************)
(* Properties of the storage client                                        *)
(***************************************************************************)
\* C19: when upsert_normalized has returned, on either path, the batches sent
\* are consecutive ranges that start at the first record and end at the last
\* one, so every record is in exactly one batch and the batches follow the
\* input order; a batch that met a failing status or an exception added
\* exactly its size to the error count, the batches after it were sent all
\* the same, and the count returned is the one reached after the last batch.
BatchesCoverAndCount ==
    LET ErrorsAfter(k) == IF k = 0 THEN 0 ELSE posts[k].stats.errors
        Failed(p) == p.reply \in {"404", "400", "exception"}
    IN  stats.done =>
            /\ n_items = 0 => posts = <<>>
            /\ n_items > 0 => posts # <<>> /\ posts[1].first = 1
                              /\ posts[Len(posts)].last = n_items
            /\ \A k \in 1..Len(posts) : posts[k].first <= posts[k].last
            /\ \A k \in 1..(Len(posts) - 1) : posts[k + 1].first = posts[k].last + 1
            /\ \A k \in 1..Len(posts) :
                  Failed(posts[k]) =>
                      ErrorsAfter(k) - ErrorsAfter(k - 1)
                          = posts[k].last - posts[k].first + 1
            /\ stats.errors = ErrorsAfter(Len(posts))

\* C19 witness: a batch failed and a batch sent after it succeeded.
LaterBatchSentAfterFailure ==
    /\ stats.done
    /\ \E j, k \in 1..Len(posts) :
          /\ j < k
          /\ posts[j].reply \in {"404", "400", "exception"}
          /\ posts[k].reply \in {"inserted", "201"}
          /\ stats.errors = posts[j].last - posts[j].first + 1

\* C20: a batch of the bulk path that met an unavailable function (status
\* 404) was written through the fallback: a request to the table that starts
\* with the first record of that batch was sent, so no batch is counted in
\* error for an unavailable function without its fallback insert.
UnavailableRpcFallsBack ==
    stats.done =>
        \A k \in 1..Len(posts) :
            (posts[k].path = "rpc" /\ posts[k].reply = "404") =>
                \E j \in 1..Len(posts) :
                    posts[j].path = "insert" /\ posts[j].first = posts[k].first


(***************************************************************************)
(* The collection loop of the Sodre scraper (sodre_scraper.py)             *)
(*                                                                         *)
(* scrape_all walks the categories of INDICES; for each it calls           *)
(* collect_category, whose loop asks fetch_page for one page after the     *)
(* other; fetch_page sends one request up to MAX_RETRIES times.  The       *)
(* server answers every request as it likes.  Time is counted in waits:    *)
(* every sleep of the code (between pages, between categories, before a    *)
(* retry) advances the clock by one, and MAX_EXECUTION_TIME and            *)
(* SAVE_CHECKPOINT_EVERY are scaled down to a few waits and a few lots.    *)
(***************************************************************************)
MAX_RETRIES == 3
PageSize == 100
MAX_EXECUTION_TIME == 4
SAVE_CHECKPOINT_EVERY == 2

\* The first two of the five categories of INDICES.
INDICES == <<"veiculos", "imoveis">>

\* What r.json() gives for a body that is no JSON: it raises.
Undecodable == [json |-> "<undecodable>"]

\* The pages the server may send: a dict with the lots and the total.  Lot 7 is
\* sent as active and as closed, lot 8 as active, lot 10 without a status.
PageResults ==
    {<<LotBase, [LotBase EXCEPT !.lot_status_id = "4"]>>,
     <<[LotBase EXCEPT !.lot_id = "8", !.lot_location = "Campinas/"], LotBase>>,
     <<[LotBase EXCEPT !.lot_status_id = Absent, !.lot_id = "10"]>>}
PageTotals == {2, 9}
Pages ==
    {[json |-> "object", results |-> <<>>, total |-> 0]}
    \cup {[json |-> "object", results |-> r, total |-> t] : r \in PageResults, t \in PageTotals}

\* The record normalize_to_schema builds of each lot the server may send.
NormalizedLots ==
    LET Sent == UNION {{r[i] : i \in 1..Len(r)} : r \in PageResults}
    IN  [lot \in Sent |-> normalize_to_schema(lot)]

\* The answers of the server to one request: a response with a status and a
\* body, or no response (requests raises Timeout or another exception).
Responses ==
    {[raises |-> None, status |-> "200", body |-> b] : b \in Pages \cup {NoData, Undecodable}}
    \cup {[raises |-> None, status |-> s, body |-> NoData] : s \in {"429", "500"}}
    \cup {[raises |-> e, status |-> None, body |-> NoData] : e \in {"Timeout", "ConnectionError"}}

\* check_timeout without the flag the alarm sets.
check_timeout_without_alarm == elapsed > MAX_EXECUTION_TIME

\* check_timeout() of SodreScraper and of CaixaScraper, each with its own
\* MAX_EXECUTION_TIME.
check_timeout == elapsed > MAX_EXECUTION_TIME \/ should_stop

\* time.sleep and the time a request takes: the clock advances, and once the
\* budget is reached the alarm set by __init__ may have set should_stop.
Sleep ==
    /\ elapsed' = elapsed + 1
    /\ should_stop' \in {should_stop}
                        \cup (IF elapsed + 1 >= MAX_EXECUTION_TIME THEN {TRUE} ELSE {})

\* The exception one attempt of fetch_page catches, or None: what the request
\* raised, or what r.json() raises on a 200 response whose body is no JSON.
Caught(r) ==
    IF r.raises # None THEN r.raises
    ELSE IF r.status = "200" /\ r.body = Undecodable THEN "JSONDecodeError"
    ELSE None

\* fetch_page asking again after any answer that is no 200.
RetriedAfterAnyStatus(r, k) == (Caught(r) # None \/ r.status # "200") /\ k < MAX_RETRIES - 1

\* Whether attempt number k (from 0) of fetch_page sends another request after
\* the answer r: after a 429, and after an exception before the last attempt.
Retried(r, k) ==
    IF Caught(r) = None THEN r.status = "429" /\ k < MAX_RETRIES - 1
    ELSE k < MAX_RETRIES - 1

\* What fetch_page returns when attempt number k ends the call with answer r.
FetchResult(r, k) ==
    IF Caught(r) = None
    THEN IF r.status = "200" THEN [data |-> r.body, error |-> None]
         ELSE IF r.status = "429"
              THEN [data |-> NoData, error |-> "Falha após múltiplas tentativas"]
              ELSE [data |-> NoData, error |-> "Status " \o r.status]
    ELSE IF Caught(r) = "Timeout"
         THEN [data |-> NoData, error |-> "Timeout após 3 tentativas"]
         ELSE [data |-> NoData, error |-> Caught(r)]

\* The category given up one error later, and the offset left where it is.
GivesUpLate(errors) == errors > MAX_RETRIES
SameOffset(offset) == offset

\* collect_category: whether the errors in a row end the loop, and the offset
\* of the request after a page that was accumulated.
GivesUp(errors) == errors >= MAX_RETRIES
NextOffset(offset) == offset + PageSize

InitScrape ==
    /\ NoNormalize
    /\ NoParse
    /\ NoScraper
    /\ NoHelper
    /\ NoClient
    /\ pc \in {"scrape_all", "caixa"} /\ elapsed = 0 /\ should_stop = FALSE
    /\ category_count = 0 /\ all_lots = <<>> /\ returned = <<>>
    /\ category_lots = <<>> /\ from_offset = 0 /\ consecutive_errors = 0
    /\ checkpoint_counter = 0 /\ pages = 0 /\ seen = {} /\ checkpoint = <<>>
    /\ attempt = 0 /\ response = NoResponse /\ fetched = NoFetch
    /\ estados_started = 0 /\ cidades_done = 0 /\ resultado_por_estado = <<>>
    /\ cards = <<>> /\ imoveis = <<>>

\* scrape_all, the head of its loop over INDICES: after the last category and
\* on a timeout it removes the duplicates and returns, otherwise it calls
\* collect_category for the next category.
ScrapeLoop ==
    /\ pc = "scrape_all"
    /\ IF category_count = Len(INDICES) \/ check_timeout
       THEN /\ returned' = UniqueById(all_lots)
            /\ pc' = "returned"
            /\ UNCHANGED <<category_count, categoryVars>>
       ELSE /\ category_count' = category_count + 1
            /\ category_lots' = <<>> /\ from_offset' = 0 /\ pages' = 0
            /\ checkpoint_counter' = 0 /\ consecutive_errors' = 0
            /\ pc' = "collect_category"
            /\ UNCHANGED <<seen, checkpoint, returned>>
    /\ UNCHANGED <<normVars, addrVars, uploadVars, helperVars, upsertVars,
                   clockVars, all_lots, fetchVars, caixaVars>>

\* collect_category, the head of its loop: on a timeout and after MAX_RETRIES
\* errors in a row the loop ends and the lots are returned, otherwise
\* fetch_page is called with from_offset.
CollectLoop ==
    /\ pc = "collect_category"
    /\ IF check_timeout \/ GivesUp(consecutive_errors)
       THEN pc' = "collected" /\ UNCHANGED fetchVars
       ELSE pc' = "fetch_page" /\ attempt' = 0 /\ response' = NoResponse
            /\ fetched' = NoFetch
    /\ UNCHANGED <<normVars, addrVars, uploadVars, helperVars, upsertVars,
                   clockVars, category_count, all_lots, categoryVars, returned, caixaVars>>

\* fetch_page, one attempt: the request is sent and answered; the call either
\* sleeps and goes on to the next attempt or returns (data, error).
FetchAttempt ==
    /\ pc = "fetch_page"
    /\ \E r \in Responses :
        /\ response' = r
        /\ attempt' = attempt + 1
        /\ IF Retried(r, attempt)
           THEN Sleep /\ pc' = pc /\ fetched' = fetched
           ELSE /\ fetched' = FetchResult(r, attempt)
                /\ pc' = "page"
                /\ IF Caught(r) = None /\ r.status = "429" THEN Sleep
                   ELSE UNCHANGED clockVars
    /\ UNCHANGED <<normVars, addrVars, uploadVars, helperVars, upsertVars,
                   category_count, all_lots, categoryVars, returned, caixaVars>>

\* collect_category, the body of its loop after fetch_page returned: an error
\* is counted and the page asked again after a delay; a page without lots ends
\* the loop; otherwise the lots are accumulated, a checkpoint is written when
\* SAVE_CHECKPOINT_EVERY more lots are there (save_checkpoint keeps one record
\* per external_id of the lots kept, and writes nothing when there is none),
\* and the loop ends when the total is reached or goes on to the next offset
\* after a delay.  Reading the lots of a page that is None raises
\* AttributeError.  The data and the error of the round are not read again:
\* the variables of fetch_page are cleared.
HandlePage ==
    /\ pc = "page"
    /\ LET Accumulate(lots, total, acc) ==
               /\ category_lots' = acc
               /\ pages' = pages + 1
               /\ seen' = seen \cup {lots[i] : i \in 1..Len(lots)}
               /\ consecutive_errors' = 0
               /\ IF Len(acc) >= (checkpoint_counter + 1) * SAVE_CHECKPOINT_EVERY
                  THEN /\ checkpoint_counter' = checkpoint_counter + 1
                       /\ \E kept \in {SelectSeq(acc, SchemaKeeps)} :
                          \E built \in {[i \in 1..Len(kept) |-> NormalizedLots[kept[i]]]} :
                              checkpoint' = IF built = <<>> THEN checkpoint
                                            ELSE UniqueById(built)
                  ELSE UNCHANGED <<checkpoint_counter, checkpoint>>
               /\ IF Len(acc) >= total
                  THEN pc' = "collected" /\ UNCHANGED <<from_offset, clockVars>>
                  ELSE pc' = "collect_category" /\ from_offset' = NextOffset(from_offset)
                       /\ Sleep
       IN  IF fetched.error # None
           THEN /\ consecutive_errors' = consecutive_errors + 1
                /\ Sleep
                /\ pc' = "collect_category"
                /\ UNCHANGED <<category_lots, from_offset, checkpoint_counter, pages,
                               seen, checkpoint>>
           ELSE IF fetched.data = NoData
           THEN /\ pc' = "raised"
                /\ consecutive_errors' = 0
                /\ UNCHANGED <<category_lots, from_offset, checkpoint_counter, pages,
                               seen, checkpoint, clockVars>>
           ELSE IF fetched.data.results = <<>>
           THEN /\ pc' = "collected"
                /\ consecutive_errors' = 0
                /\ UNCHANGED <<category_lots, from_offset, checkpoint_counter, pages,
                               seen, checkpoint, clockVars>>
           ELSE Accumulate(fetched.data.results, fetched.data.total,
                           category_lots \o fetched.data.results)
    /\ attempt' = 0 /\ response' = NoResponse /\ fetched' = NoFetch
    /\ UNCHANGED <<normVars, addrVars, uploadVars, helperVars, upsertVars,
                   category_count, all_lots, returned, caixaVars>>

\* scrape_all, after collect_category returned: the lots normalize_to_schema
\* keeps are appended as records, and a delay follows unless the category was
\* the last.  The variables of the call that returned are cleared.
AfterCategory ==
    /\ pc = "collected"
    /\ \E kept \in {SelectSeq(category_lots, SchemaKeeps)} :
           all_lots' = all_lots \o [i \in 1..Len(kept) |-> NormalizedLots[kept[i]]]
    /\ IF category_count < Len(INDICES) THEN Sleep ELSE UNCHANGED clockVars
    /\ pc' = "scrape_all"
    /\ category_lots' = <<>> /\ from_offset' = 0 /\ pages' = 0
    /\ checkpoint_counter' = 0 /\ consecutive_errors' = 0
    /\ UNCHANGED <<normVars, addrVars, uploadVars, helperVars, upsertVars,
                   category_count, seen, checkpoint, fetchVars, returned, caixaVars>>

(***************************************************************************)
(* The collection loop of the Caixa scraper (caixa_scraper.py)             *)
(*                                                                         *)
(* scrape_all walks the states of cidades_dict and the cities of each;     *)
(* coletar_imoveis fetches the cards of a city, parse_imoveis reads them   *)
(* and consolidar_pares merges them.  A record keeps its id, valor,        *)
(* endereco and status; Absent stands for a key the record does not have.  *)
(***************************************************************************)
\* The dict passed to scrape_all, as (estado, cidades) pairs in order.
cidades_dict ==
    <<[estado |-> "SP", cidades |-> <<"Campinas", "Santos">>],
      [estado |-> "RJ", cidades |-> <<"Niteroi">>]>>

\* What parse_imoveis may return for a city: the records of the cards it found
\* (a property shown on two cards gives two records with its id), or one stub
\* per id when it found no card, or nothing.
CardOf(id, valor, endereco) ==
    [id |-> id, valor |-> valor, endereco |-> endereco, status |-> Absent]
StubOf(id) == [id |-> id, valor |-> Absent, endereco |-> Absent, status |-> "sem_detalhes"]
CardLists ==
    {<<>>,
     <<CardOf("1", "R$ 100.000,00", None), CardOf("1", None, "Rua A, 10")>>,
     <<CardOf("1", None, "Rua A, 10"), CardOf("1", "R$ 100.000,00", None),
       CardOf("2", "R$ 90.000,00", "Rua B, 20")>>,
     <<CardOf("1", "R$ 100.000,00", "Rua A, 10"), CardOf("2", "R$ 90.000,00", "Rua B, 20")>>,
     <<StubOf("1"), StubOf("2")>>,
     <<StubOf("3")>>}

\* CaixaScraper.consolidar_pares(imoveis): the records are taken two by two;
\* of a pair the one with a valor is the principal (the first when both or
\* neither have one), and the merged record has the keys of both, the values
\* and the id of the principal.
consolidar_pares(records) ==
    LET HasValor(r) == r.valor \notin {Absent, None, ""}
        Update(secundario, principal) ==
            [k \in DOMAIN principal |->
                IF principal[k] # Absent THEN principal[k] ELSE secundario[k]]
        Merged(atual, prox) ==
            IF HasValor(prox) /\ ~HasValor(atual) THEN Update(atual, prox)
            ELSE Update(prox, atual)
        At(k) == IF 2 * k <= Len(records) THEN Merged(records[2 * k - 1], records[2 * k])
                 ELSE records[2 * k - 1]
    IN  [k \in 1..((Len(records) + 1) \div 2) |-> At(k)]

\* CaixaScraper.scrape_all up to its loop: without cookies it returns {}.
CaixaScrapeAll ==
    /\ pc = "caixa"
    /\ \E cookies \in BOOLEAN : pc' = IF cookies THEN "estados" ELSE "returned"
    /\ UNCHANGED <<normVars, addrVars, uploadVars, helperVars, upsertVars,
                   clockVars, sodreVars, caixaVars>>

\* CaixaScraper.scrape_all, the head of its loop over the states: after the
\* last state and on a timeout it returns resultado_por_estado, otherwise the
\* state gets an empty list and the loop over its cities begins.
CaixaEstado ==
    /\ pc = "estados"
    /\ IF estados_started = Len(cidades_dict) \/ check_timeout
       THEN pc' = "returned" /\ UNCHANGED <<estados_started, cidades_done, resultado_por_estado>>
       ELSE /\ estados_started' = estados_started + 1
            /\ cidades_done' = 0
            /\ resultado_por_estado' =
                   Append(resultado_por_estado,
                          [estado |-> cidades_dict[estados_started + 1].estado,
                           imoveis |-> <<>>])
            /\ pc' = "cidades"
    /\ UNCHANGED <<normVars, addrVars, uploadVars, helperVars, upsertVars,
                   clockVars, sodreVars, cards, imoveis>>

\* CaixaScraper.scrape_all, one round of its loop over the cities of a state:
\* after the last city and on a timeout the loop ends; otherwise
\* coletar_imoveis is called (it returns [] on an error and without ids, and
\* otherwise the consolidated records of parse_imoveis with the place added)
\* and what it returns is appended to the list of the state.
CaixaCidade ==
    /\ pc = "cidades"
    /\ LET here == cidades_dict[estados_started]
           Placed(records, cidade) ==
               [k \in 1..Len(records) |->
                   [id |-> records[k].id, valor |-> records[k].valor,
                    endereco |-> records[k].endereco, status |-> records[k].status,
                    estado |-> here.estado, cidade |-> cidade]]
           Extended(found) ==
               [resultado_por_estado EXCEPT
                   ![estados_started].imoveis = resultado_por_estado[estados_started].imoveis
                                                \o found]
           Collected(parsed_cards, found) ==
               /\ cards' = parsed_cards
               /\ imoveis' = found
               /\ resultado_por_estado' = Extended(found)
               /\ seen' = seen \cup {found[k] : k \in 1..Len(found)}
       IN  IF cidades_done = Len(here.cidades) \/ check_timeout
           THEN /\ pc' = "estados"
                /\ UNCHANGED <<cidades_done, resultado_por_estado, cards, imoveis, seen,
                               clockVars>>
           ELSE /\ \E failed \in BOOLEAN, parsed_cards \in CardLists :
                       IF failed THEN Collected(<<>>, <<>>)
                       ELSE Collected(parsed_cards,
                                      Placed(consolidar_pares(parsed_cards),
                                             here.cidades[cidades_done + 1]))
                /\ cidades_done' = cidades_done + 1
                /\ Sleep
                /\ pc' = pc
    /\ UNCHANGED <<normVars, addrVars, uploadVars, helperVars, upsertVars,
                   estados_started, category_count, all_lots, category_lots, from_offset,
                   consecutive_errors, checkpoint_counter, pages, checkpoint, fetchVars,
                   returned>>

NextScrape ==
    \/ ScrapeLoop \/ CollectLoop \/ FetchAttempt \/ HandlePage \/ AfterCategory
    \/ CaixaScrapeAll \/ CaixaEstado \/ CaixaCidade

SpecScrape == InitScrape /\ [][NextScrape]_vars

(***************************************************************************)
(* Properties of the collection loops                                      *)
(***************************************************************************)

\* C21: once the budget is exhausted (the time is over or the alarm has set
\* should_stop) no step starts a new category or a new page (Sodre), a new
\* state or a new city (Caixa); and when scrape_all has returned, every record
\* coletar_imoveis gave is in the dict Caixa returns, and every lot
\* collect_category accumulated that normalize_to_schema keeps has its
\* external_id in the list Sodre returns.
StopsAndKeepsAccumulated ==
    /\ [][(elapsed > MAX_EXECUTION_TIME \/ should_stop) =>
            /\ category_count' = category_count
            /\ ~(pc = "collect_category" /\ pc' = "fetch_page")
            /\ estados_started' = estados_started
            /\ cidades_done' = cidades_done]_vars
    /\ [](pc = "returned" =>
            IF estados_started > 0
            THEN \A rec \in seen :
                    \E i \in 1..Len(resultado_por_estado) :
                        \E k \in 1..Len(resultado_por_estado[i].imoveis) :
                            resultado_por_estado[i].imoveis[k] = rec
            ELSE \A lot \in seen :
                    SchemaKeeps(lot) =>
                        \E i \in 1..Len(returned) :
                            returned[i].external_id = normalize_to_schema(lot).external_id)

\* The Sodre run was cut short by the budget after the first category and
\* returned the lots of that category.
CutShortWithLots ==
    /\ pc = "returned" /\ (elapsed > MAX_EXECUTION_TIME \/ should_stop)
    /\ category_count = 1 /\ returned # <<>>

\* C22: every record scrape_all returns and every record save_checkpoint
\* writes is the record normalize_to_schema builds from an accumulated lot
\* whose lot_status_id is 1, 2 or 3, whatever lots the server sent.
EmitsOnlyActiveLots ==
    \A emitted \in {returned, checkpoint} :
        \A i \in 1..Len(emitted) :
            \E lot \in seen :
                /\ Get(lot, "lot_status_id") \in {"1", "2", "3"}
                /\ emitted[i] = normalize_to_schema(lot)

\* scrape_all returned records and a checkpoint was written although the
\* server had sent a closed lot and a lot without status.
ClosedLotsWereSent ==
    /\ pc = "returned" /\ returned # <<>> /\ checkpoint # <<>>
    /\ \E lot \in seen : Get(lot, "lot_status_id") = "4"
    /\ \E lot \in seen : Get(lot, "lot_status_id") = None

\* C23: the list scrape_all returns and the list save_checkpoint writes hold
\* no two records with the same external_id, and hold a record for every
\* external_id among the records they were made from.
NoDuplicateIds ==
    /\ \A emitted \in {returned, checkpoint} :
           \A i, j \in 1..Len(emitted) :
               emitted[i].external_id = emitted[j].external_id => i = j
    /\ pc = "returned" =>
           \A k \in 1..Len(all_lots) :
               \E i \in 1..Len(returned) : returned[i].external_id = all_lots[k].external_id

\* scrape_all returned after both categories, a checkpoint was written, and
\* the records of the categories held the same record twice and at least two
\* records more than the list returned.
SameLotSentAgain ==
    /\ pc = "returned" /\ checkpoint # <<>>
    /\ \E j, k \in 1..Len(all_lots) : j # k /\ all_lots[j] = all_lots[k]
    /\ Len(all_lots) > Len(returned) + 1
    /\ category_count = 2

\* C24: the loop of collect_category is left after exactly MAX_RETRIES calls
\* of fetch_page in a row returned an error (or on a timeout); the counter of
\* errors grows by one with every call that returned an error and is 0 after
\* every other call, so it never passes 3; and the lots accumulated before are
\* what the call returns: scrape_all appends the record of each one that
\* normalize_to_schema keeps.
GivesUpAfterThreeErrors ==
    /\ [](consecutive_errors <= 3)
    /\ [][pc = "collect_category" =>
            ((pc' = "collected")
                <=> (consecutive_errors = 3 \/ elapsed > MAX_EXECUTION_TIME \/ should_stop))]_vars
    /\ [][pc = "page" =>
            /\ consecutive_errors' = IF fetched.error # None THEN consecutive_errors + 1
                                     ELSE 0
            /\ fetched.error # None => category_lots' = category_lots]_vars
    /\ [][pc = "collected" =>
            \A k \in 1..Len(category_lots) :
                SchemaKeeps(category_lots[k]) =>
                    \E i \in 1..Len(all_lots') :
                        all_lots'[i] = normalize_to_schema(category_lots[k])]_vars

\* collect_category returned its lots after three errors in a row, with time
\* left.
GaveUpWithLots ==
    /\ pc = "collected" /\ consecutive_errors = 3 /\ category_lots # <<>>
    /\ ~(elapsed > MAX_EXECUTION_TIME \/ should_stop)

\* C25: whenever collect_category has called fetch_page, the offset of the
\* request is 100 times the number of non-empty pages the call has accumulated;
\* a round in which fetch_page returned an error leaves the offset as it is,
\* and a round that accumulated a page and goes on moves it by exactly 100.
OffsetCountsPages ==
    /\ [](pc \in {"fetch_page", "page"} => from_offset = 100 * pages)
    /\ [][pc = "page" =>
            IF fetched.error # None THEN from_offset' = from_offset
            ELSE /\ from_offset' \in {from_offset, from_offset + 100}
                 /\ pc' = "collect_category" => from_offset' = from_offset + 100]_vars

\* The second page is asked for again at offset 100 after two calls for it
\* returned an error.
FailedPageAskedAgain ==
    pc = "fetch_page" /\ from_offset = 100 /\ pages = 1 /\ consecutive_errors = 2

\* The scrapers run on: a step that can be taken is taken in the end.  Every
\* sleep of the loops advances the clock, so no fairness of the clock is
\* needed beside it.
SpecScrapeFair == SpecScrape /\ WF_vars(NextScrape)

\* C26: every call of collect_category returns in the end, whatever the
\* server answers.
CollectEventuallyReturns == (pc = "collect_category") ~> (pc = "collected")

(***************************************************************************)
(* Properties of fetch_page                                                *)
(***************************************************************************)

\* C27: one call of fetch_page sends at most 3 requests; it goes on to another
\* request only after a 429, a timeout or another exception (r.json() raising
\* on a body that is no JSON is one); a 200 response with a JSON body returns
\* the body at once, a status other than 200 and 429 returns an error at once,
\* and the call that met a 429 or an exception at its third request returns an
\* error.
FetchPageAttempts ==
    LET raised == response.raises # None
                  \/ (response.status = "200" /\ response.body = Undecodable)
    IN  /\ attempt <= 3
        /\ pc = "fetch_page" /\ attempt > 0 =>
               attempt < 3 /\ (raised \/ response.status = "429")
        /\ pc = "page" =>
               IF raised \/ response.status = "429"
               THEN attempt = 3 /\ fetched.data = NoData /\ fetched.error # None
               ELSE IF response.status = "200"
                    THEN fetched = [data |-> response.body, error |-> None]
                    ELSE fetched = [data |-> NoData, error |-> "Status " \o response.status]

\* C27 as stated: every 200 response returns the data at once; only a 429, a
\* timeout or an exception of the request is followed by another request.
Every200ReturnsAtOnce ==
    /\ attempt <= 3
    /\ pc = "fetch_page" /\ attempt > 0 =>
           attempt < 3 /\ (response.raises # None \/ response.status = "429")
    /\ pc = "page" =>
           IF response.raises # None \/ response.status = "429"
           THEN attempt = 3 /\ fetched.data = NoData /\ fetched.error # None
           ELSE IF response.status = "200"
                THEN fetched.error = None
                ELSE fetched = [data |-> NoData, error |-> "Status " \o response.status]

\* The third request of a call was answered with a page, which the call
\* returned.
PageOnThirdAttempt ==
    pc = "page" /\ attempt = 3 /\ fetched.error = None /\ fetched.data \in Pages

\* C28: of the data and the error fetch_page returns exactly one is not None,
\* and collect_category never reads the lots of a page that is None.
ExactlyOneOfDataAndError ==
    /\ pc = "page" => ((fetched.data # NoData) <=> (fetched.error = None))
    /\ pc # "raised"

(***************************************************************************)
(* Properties of consolidar_pares                                          *)
(***************************************************************************)

\* C29: every id among the records parse_imoveis gave for a city is the id of
\* a record coletar_imoveis returns for it.
ConsolidationKeepsIds ==
    \A k \in 1..Len(cards) : \E j \in 1..Len(imoveis) : imoveis[j].id = cards[k].id

(***************************************************************************)
(* Properties of normalize: the payload                                    *)
(***************************************************************************)

====
